---- MODULE Spec2Model ----
(***************************************************************************)
(* WikibaseMigrator: the mapping cache (mapper.py), the snak translator    *)
(* and the batch orchestration (migrator.py), the entity merger            *)
(* (merger.py) and the migrate command (cli.py), modelled as state         *)
(* machines.                                                               *)
(*                                                                         *)
(* Spec          the mapping cache under prepare_cache_for,                *)
(*               query_mappings_for and get_mapping_for, with SPARQL       *)
(*               requests that may fail.                                   *)
(* SpecTranslate translate_entity over a pool of source entities, for each *)
(*               migration profile.                                        *)
(* SpecBatch     one batch: translate_entities_by_id with the merge of     *)
(*               existing entities, then migrate_entities_to_target with   *)
(*               one worker step per write.                                *)
(* SpecResolve   one mapper session over sources with several targets,     *)
(*               with the iteration order of the raw mapping set.          *)
(* SpecCast      translate_entity over entities whose snaks need a         *)
(*               datatype cast or carry a quantity.                        *)
(* SpecMerge     EntityMerger.merge over pairs of entities.                *)
(* SpecMigrate   migrate_entities_to_target: the login, the submission     *)
(*               loop of the main thread, the workers of the thread pool   *)
(*               and the done callbacks.                                   *)
(* SpecCli       the migrate command: the summary, the confirmation prompt *)
(*               and the migration it starts.                              *)
(* SpecPrime     query_mappings_for in one thread, statement by statement, *)
(*               with get_mapping_for called from another thread.          *)
(***************************************************************************)
EXTENDS Integers, Sequences, FiniteSets, TLC

VARIABLES
    raw_mappings,           \* WikibaseItemMapper._raw_mappings: set of <<source, target>>
    mappings,               \* WikibaseItemMapper.mappings: cached id -> target id or NULL
    source_property_types,  \* WikibaseItemMapper.source_property_types
    target_property_types,  \* WikibaseItemMapper.target_property_types
    last,                   \* the last mapper call: its arguments and what it did
    repeat,                 \* whether the last call repeats the prepare_cache_for before it
    profile,                \* WikibaseMigrator.profile
    result,                 \* the EntityTranslationResult of the last translate_entity
    batch,                  \* one translate_entities_by_id / migrate_entities_to_target run
    merging,                \* one EntityMerger.merge call: its arguments and what it did
    session,                \* one mapper session: the iteration order of the raw mapping
                            \* set, the last call and the targets get_mapping_for returned
    migration,              \* one migrate_entities_to_target call: the main thread, the
                            \* futures of the thread pool and the callback invocations
    cli,                    \* one run of the migrate command of the command line
    prime                   \* a query_mappings_for call in progress in another thread

mapper_vars == <<raw_mappings, mappings, source_property_types, target_property_types>>
vars == <<raw_mappings, mappings, source_property_types, target_property_types,
          last, repeat, profile, result, batch, merging, session,
          migration, cli, prime>>

\* Python's None
NULL == "None"

\* The largest id list handed to one mapper call.
MaxIds == 2

---------------------------------------------------------------------------
(* The two Wikibase instances as the SPARQL endpoints present them.        *)

SourcePropertyIds ==
    {"P1", "P2", "P3", "P4", "P5", "P6", "P7", "P8", "P9", "P11", "P12", "P13"}
SourceItemIds == {"Q1", "Q2"}
SourceLexemeIds == {"L1"}
SourceIds == SourcePropertyIds \cup SourceItemIds \cup SourceLexemeIds

TargetPropertyIds == {"P100", "P101", "P102", "P104", "P105", "P106"}
TargetItemIds == {"Q101", "Q102"}
TargetIds == TargetPropertyIds \cup TargetItemIds

\* str.startswith on the one-letter kind prefix of an id
Prefix(id) ==
    CASE id \in SourcePropertyIds \cup TargetPropertyIds -> "P"
      [] id \in SourceItemIds \cup TargetItemIds -> "Q"
      [] id \in SourceLexemeIds -> "L"
      [] OTHER -> "X"

\* The rows the mapping queries bind (source_item, target_item); Q1 is asserted
\* equivalent to two target items, P3 has a row without a target binding,
\* Q2 and L1 have no row. P11 and P12 are asserted equivalent to two target
\* properties each: one of P11's has the datatype of P11, none of P12's has
\* the datatype of P12.
MappingGraph ==
    { <<"P1", "P101">>, <<"P2", "P102">>, <<"P3", NULL>>, <<"P4", "P104">>,
      <<"P5", "P100">>, <<"P6", "P104">>, <<"P7", "P105">>, <<"P8", "P102">>,
      <<"P9", "P104">>, <<"P13", "P106">>,
      <<"P11", "P100">>, <<"P11", "P104">>, <<"P12", "P100">>, <<"P12", "P102">>,
      <<"Q1", "Q101">>, <<"Q1", "Q102">> }

\* wikibase:propertyType of each property, in the WikidataDataTypes vocabulary
SourceEndpointTypes == [p \in SourcePropertyIds |->
    CASE p = "P1" -> "WikibaseItem" [] p = "P6" -> "Monolingualtext"
      [] p \in {"P8", "P9"} -> "Quantity" [] p = "P13" -> "Math" [] OTHER -> "String"]
TargetEndpointTypes == [p \in TargetPropertyIds |->
    CASE p = "P100" -> "ExternalId" [] p = "P101" -> "WikibaseItem"
      [] p = "P102" -> "Quantity" [] p = "P105" -> "Monolingualtext"
      [] p = "P106" -> "Math" [] OTHER -> "String"]

\* WikidataDataTypes.get_wbi_type: the WbiDataTypes member of the same name
get_wbi_type(t) ==
    CASE t = "String" -> "string"
      [] t = "ExternalId" -> "external-id"
      [] t = "WikibaseItem" -> "wikibase-item"
      [] t = "Time" -> "time"
      [] t = "Quantity" -> "quantity"
      [] t = "Monolingualtext" -> "monolingualtext"
      [] t = "Math" -> "math"
      [] OTHER -> "url"

\* The SPARQL requests the mapper issues
Requests == {"property_mapping", "item_mapping", "source_types", "target_types"}
\* The sets of requests that fail during one call: none, or one of them
FaultSets == { {} } \cup { {r} : r \in Requests }

\* The orders in which one call may iterate the raw mapping set
SetOrders == {"asc", "desc"}

\* Position of a target id in the iteration of the raw mapping set
Rank(t) ==
    CASE t = "P100" -> 0 [] t = "P101" -> 1 [] t = "P102" -> 2 [] t = "P104" -> 3
      [] t = "P105" -> 4 [] t = "Q101" -> 5 [] t = "Q102" -> 6 [] OTHER -> 7
First(targets, ord) ==
    CHOOSE t \in targets : \A u \in targets :
        IF ord = "asc" THEN Rank(t) <= Rank(u) ELSE Rank(t) >= Rank(u)

---------------------------------------------------------------------------
(* WikibaseItemMapper, as operators on the record                          *)
(*   m = [raw, mappings, spt, tpt].                                        *)

Mapper == [raw |-> raw_mappings, mappings |-> mappings,
           spt |-> source_property_types, tpt |-> target_property_types]

\* F applied to the value v: the result of a call, named once and read by F
With(v, F(_)) == F(v)

\* dict.get(key, None)
Get(d, k) == IF k \in DOMAIN d THEN d[k] ELSE NULL

\* dict.update
Update(d, e) == [k \in (DOMAIN d) \cup (DOMAIN e) |-> IF k \in DOMAIN e THEN e[k] ELSE d[k]]

is_cached(mp, item) == item \in DOMAIN mp

\* _init_cache_for without its "not already cached" test
_init_cache_for_overwriting(mp, ids) ==
    [id \in (DOMAIN mp) \cup ids |-> IF id \in ids THEN NULL ELSE mp[id]]

_init_cache_for(mp, ids) ==
    [id \in (DOMAIN mp) \cup ids |-> IF id \in DOMAIN mp THEN mp[id] ELSE NULL]

\* The rows a successful mapping query returns for the given VALUES
MappingRows(ids) == { r \in MappingGraph : r[1] \in ids }

_update_raw_cache(raw, lod) ==
    raw \cup { r \in lod : r[1] # NULL /\ r[2] # NULL }

\* Query.get_property_datatype followed by get_wbi_type, for one side
PropertyDatatypes(endpoint_types, property_ids) ==
    [p \in property_ids \cap DOMAIN endpoint_types |-> get_wbi_type(endpoint_types[p])]

_update_source_property_types(m, flt) ==
    LET used_props == { r[1] : r \in { x \in m.raw : Prefix(x[1]) = "P" } }
        needed_props == used_props \ DOMAIN m.spt
        issued == needed_props # {}
    IN  [spt |-> IF issued /\ "source_types" \notin flt
                 THEN Update(m.spt, PropertyDatatypes(SourceEndpointTypes, needed_props))
                 ELSE m.spt,
         issued |-> IF issued THEN {"source_types"} ELSE {}]

_update_target_property_types(m, flt) ==
    LET used_props == { r[2] : r \in { x \in m.raw : x[2] # NULL /\ Prefix(x[2]) = "P" } }
        needed_props == used_props \ DOMAIN m.tpt
        issued == needed_props # {}
    IN  [tpt |-> IF issued /\ "target_types" \notin flt
                 THEN Update(m.tpt, PropertyDatatypes(TargetEndpointTypes, needed_props))
                 ELSE m.tpt,
         issued |-> IF issued THEN {"target_types"} ELSE {}]

\* update_cache choosing the first target whatever the datatypes are
ChosenTarget_first(m, source, ord) ==
    First({ r[2] : r \in { x \in m.raw : x[1] = source } }, ord)

\* The target update_cache picks for one source id
ChosenTarget(m, source, ord) ==
    LET target_ids == { r[2] : r \in { x \in m.raw : x[1] = source } }
        source_type == Get(m.spt, source)
        matching == { t \in target_ids : Get(m.tpt, t) = source_type }
    IN  IF Cardinality(target_ids) = 1 THEN CHOOSE t \in target_ids : TRUE
        ELSE IF Prefix(source) = "P"
             THEN IF matching # {} THEN First(matching, ord) ELSE First(target_ids, ord)
             ELSE First(target_ids, ord)

update_cache(m, ord) ==
    LET sources == { r[1] : r \in m.raw }
    IN  [id \in (DOMAIN m.mappings) \cup sources |->
            IF id \in sources THEN ChosenTarget(m, id, ord) ELSE m.mappings[id]]

\* query_mappings_for: the mapper after the call, whether the call raised, the
\* requests it issued and the ids whose mapping query had not completed
query_mappings_for(m, ids, flt, ord) ==
    LET property_ids == { i \in ids : Prefix(i) = "P" }
        item_ids == { i \in ids : Prefix(i) = "Q" }
        mp0 == _init_cache_for(m.mappings, ids)
        p_issued == property_ids # {}
        p_raised == p_issued /\ "property_mapping" \in flt
        raw1 == IF p_issued /\ ~p_raised
                THEN _update_raw_cache(m.raw, MappingRows(property_ids)) ELSE m.raw
        i_issued == ~p_raised /\ item_ids # {}
        i_raised == i_issued /\ "item_mapping" \in flt
        raw2 == IF i_issued /\ ~i_raised
                THEN _update_raw_cache(raw1, MappingRows(item_ids)) ELSE raw1
        raised == p_raised \/ i_raised
        m1 == [m EXCEPT !.mappings = mp0, !.raw = raw2]
        st == _update_source_property_types(m1, flt)
        tt == _update_target_property_types(m1, flt)
        m2 == [m1 EXCEPT !.spt = st.spt, !.tpt = tt.tpt]
        m3 == [m2 EXCEPT !.mappings = update_cache(m2, ord)]
        mapping_issued == (IF p_issued THEN {"property_mapping"} ELSE {})
                          \cup (IF i_issued THEN {"item_mapping"} ELSE {})
        all_issued == mapping_issued \cup st.issued \cup tt.issued
    IN  IF raised
        THEN [m |-> m1, raised |-> TRUE, issued |-> mapping_issued,
              failed |-> mapping_issued \cap flt,
              unqueried |-> IF p_raised THEN property_ids \cup item_ids ELSE item_ids]
        ELSE [m |-> m3, raised |-> FALSE, issued |-> all_issued,
              failed |-> all_issued \cap flt,
              unqueried |-> {}]

NoCall(m) == [m |-> m, raised |-> FALSE, issued |-> {}, failed |-> {}, unqueried |-> {}]

\* prepare_cache_for without the filter on the cache
ItemsToQuery_unfiltered(mp, items) == items

ItemsToQuery(mp, items) == { item \in items : item \notin DOMAIN mp }

prepare_cache_for(m, items, flt, ord) ==
    LET items_to_query == ItemsToQuery(m.mappings, items)
    IN  IF items_to_query # {}
        THEN query_mappings_for(m, items_to_query, flt, ord)
        ELSE NoCall(m)

\* get_mapping_for: as the calls above, with the value returned in ret
get_mapping_for(m, item, flt, ord) ==
    With(IF ~is_cached(m.mappings, item)
         THEN query_mappings_for(m, {item}, flt, ord)
         ELSE NoCall(m),
         LAMBDA q :
            [m |-> q.m, raised |-> q.raised, issued |-> q.issued, failed |-> q.failed,
             unqueried |-> q.unqueried,
             ret |-> IF q.raised THEN NULL ELSE Get(q.m.mappings, item)])

get_existing_mappings(mp) == { k \in DOMAIN mp : mp[k] # NULL }

---------------------------------------------------------------------------
(* Entities, claims and snaks                                              *)

KNOWN_VALUE == "value"
UNKNOWN_VALUE == "somevalue"
NO_VALUE == "novalue"

\* A snak's datavalue: type names the JSON shape, value is the text, the
\* referenced entity id or the amount; NoDatavalue is the missing datavalue of a
\* snak that is not KNOWN_VALUE.
NoDatavalue == [type |-> NULL, value |-> NULL, unit |-> NULL, language |-> NULL]
StringValue(text) == [type |-> "string", value |-> text, unit |-> NULL, language |-> NULL]
EntityIdValue(id) == [type |-> "wikibase-entityid", value |-> id, unit |-> NULL, language |-> NULL]
QuantityValue(amount, unit) == [type |-> "quantity", value |-> amount, unit |-> unit, language |-> NULL]
MonolingualValue(text, language) ==
    [type |-> "monolingualtext", value |-> text, unit |-> NULL, language |-> language]
\* a quantity with the upperBound and lowerBound keys of the Wikibase JSON
BoundedQuantityValue(amount, unit, upper, lower) ==
    [type |-> "quantity", value |-> amount, unit |-> unit, language |-> NULL,
     upperBound |-> upper, lowerBound |-> lower]

Snak(property_number, datatype, snaktype, datavalue) ==
    [property_number |-> property_number, datatype |-> datatype,
     snaktype |-> snaktype, datavalue |-> datavalue]

Claim(mainsnak, qualifiers, references) ==
    [mainsnak |-> mainsnak, qualifiers |-> qualifiers, references |-> references]

EmptyDict == [k \in {} |-> NULL]

Entity(id, etype, labels, descriptions, aliases, sitelinks, claims) ==
    [id |-> id, ETYPE |-> etype, labels |-> labels, descriptions |-> descriptions,
     aliases |-> aliases, sitelinks |-> sitelinks, claims |-> claims]

\* wbi.item.new() and its siblings: an entity without id and content
NewEntity(etype) == Entity(NULL, etype, EmptyDict, EmptyDict, EmptyDict, EmptyDict, <<>>)

Range(seq) == { seq[i] : i \in 1..Len(seq) }

\* WikibaseEntityTypes.support_sitelinks
support_sitelinks == {"item"}

\* The datatypes whose branch of _translate_snak copies the datavalue with one value argument
CopiedDatatypes ==
    {"string", "external-id", "commonsMedia", "entity-schema", "url", "property",
     "geo-shape", "tabulated-data", "time", "monolingualtext", "globe-coordinate"}

\* unit.split("/")[-1] of a quantity's unit
LastSegment(unit) ==
    CASE unit = "src/Q1" -> "Q1" [] unit = "src/Q2" -> "Q2" [] unit = "src/L1" -> "L1"
      [] OTHER -> unit

\* f"{profile.target.item_prefix}{mapped_unit_id}"
TargetUnit(mapped_unit_id) ==
    CASE mapped_unit_id = "Q101" -> "tgt/Q101" [] mapped_unit_id = "Q102" -> "tgt/Q102"
      [] OTHER -> "tgt/"

\* int(value): <<n>>, or <<>> for the ValueError
ParseInt(text) == CASE text = "1" -> <<1>> [] text = "-2" -> <<-2>> [] OTHER -> <<>>

\* the amount a wikibaseintegrator Quantity stores for an int
FormatAmount(n) == CASE n = 1 -> "+1" [] n = -2 -> "-2" [] OTHER -> "+0"

---------------------------------------------------------------------------
(* WikibaseMigrator: id harvest                                            *)

get_unit_id(snak) ==
    IF snak.datatype = "quantity" /\ snak.datavalue.unit # NULL
           /\ Prefix(LastSegment(snak.datavalue.unit)) \in {"Q", "P", "L"}
    THEN LastSegment(snak.datavalue.unit)
    ELSE NULL

_is_item_and_known_value(snak) ==
    snak.datatype = "wikibase-item" /\ snak.snaktype = KNOWN_VALUE

\* a harvest that collects the property of a snak only
SnakIds_property_only(snak) == {snak.property_number}

\* the ids one snak contributes to the harvest
SnakIds(snak) ==
    {snak.property_number}
        \cup (IF get_unit_id(snak) # NULL THEN {get_unit_id(snak)} ELSE {})
        \cup (IF _is_item_and_known_value(snak) THEN {snak.datavalue.value} ELSE {})

get_all_entity_ids_from_qualifiers(qualifiers) ==
    UNION { SnakIds(q) : q \in Range(qualifiers) }

get_all_entity_ids_from_references(references) ==
    UNION { UNION { SnakIds(r) : r \in Range(block) } : block \in Range(references) }

get_all_entity_ids(entity) ==
    {entity.id} \cup UNION { SnakIds(c.mainsnak)
                               \cup get_all_entity_ids_from_qualifiers(c.qualifiers)
                               \cup get_all_entity_ids_from_references(c.references)
                             : c \in Range(entity.claims) }

---------------------------------------------------------------------------
(* WikibaseMigrator: snak translation. A translation runs in a context     *)
(*   ctx = [m, flt, ord, profile, missing_properties, missing_items,       *)
(*          errors, raised, issued, lookups, requeried, log]               *)
(* holding the mapper, the translation result's lists, the exception that  *)
(* ended the translation (raised), the ids handed to get_mapping_for       *)
(* (lookups), the requests these calls issued (requeried) and, per         *)
(* translated snak, the source snak with what was emitted for it (log).    *)

NewContext(m, flt, ord, prof) ==
    [m |-> m, flt |-> flt, ord |-> ord, profile |-> prof,
     missing_properties |-> <<>>, missing_items |-> <<>>, errors |-> <<>>,
     raised |-> FALSE, issued |-> {}, lookups |-> {}, requeried |-> {}, log |-> <<>>]

\* self.mapper.get_mapping_for(id) inside a translation
CtxGetMapping(ctx, id) ==
    With(get_mapping_for(ctx.m, id, ctx.flt, ctx.ord),
         LAMBDA r :
            [ctx |-> [ctx EXCEPT !.m = r.m, !.raised = r.raised, !.issued = @ \cup r.issued,
                                 !.lookups = @ \cup {id}, !.requeried = @ \cup r.issued],
             ret |-> r.ret])

\* add_missing_property that forgets the id
add_missing_property_dropped(ctx, property_id) == ctx

add_missing_property(ctx, property_id) ==
    [ctx EXCEPT !.missing_properties = Append(@, property_id)]

add_missing_item(ctx, entity_id) ==
    [ctx EXCEPT !.missing_items = Append(@, entity_id)]

add_error(ctx, msg) == [ctx EXCEPT !.errors = Append(@, msg)]

has_type_mismatch(m, source_pid, target_pid) ==
    Get(m.spt, source_pid) # Get(m.tpt, target_pid)

Emit(ctx, snak) == [ctx |-> ctx, out |-> <<snak>>]
Drop(ctx) == [ctx |-> ctx, out |-> <<>>]

\* a caster that refuses every cast
_translate_snak_with_type_mismatch_refusing(ctx, snak) ==
    Drop(add_error(ctx, "Unable to resolve type mismatch. Can not convert"))

_translate_snak_with_type_mismatch(ctx, snak) ==
    With(CtxGetMapping(ctx, snak.property_number), LAMBDA g :
    LET source_pid == snak.property_number
        target_pid == g.ret
        source_type == Get(g.ctx.m.spt, source_pid)
        target_type == Get(g.ctx.m.tpt, target_pid)
        value == snak.datavalue.value
    IN  IF g.ctx.raised \/ target_pid = NULL THEN Drop(g.ctx)
        ELSE IF source_type = "string" /\ target_type = "quantity"
        THEN IF ParseInt(value) # <<>>
             THEN Emit(add_error(g.ctx, "Resolved type missmatch by casting to int"),
                       Snak(target_pid, "quantity", snak.snaktype,
                            QuantityValue(FormatAmount(ParseInt(value)[1]), "1")))
             ELSE Drop(add_error(g.ctx, "Unable to resolve type mismatch. Can not convert to type Quantity"))
        ELSE IF source_type = "string" /\ target_type = "wikibase-item"
        THEN Drop(add_error(g.ctx, "Unsolvable type mismatch. Excluding this snak"))
        ELSE IF source_type = "string" /\ target_type = "monolingualtext"
        THEN Emit(add_error(g.ctx, "Resolved type mismatch by casting to text with fallback language"),
                  Snak(target_pid, "monolingualtext", snak.snaktype,
                       MonolingualValue(value, g.ctx.profile.fallback_language)))
        ELSE IF source_type = "string" /\ target_type = "external-id"
        THEN Emit(g.ctx, Snak(target_pid, "external-id", snak.snaktype, StringValue(value)))
        ELSE IF source_type = "monolingualtext" /\ target_type = "string"
        THEN Emit(add_error(g.ctx, "Resolved type mismatch by casting to text"),
                  Snak(target_pid, "string", snak.snaktype, StringValue(value)))
        ELSE IF source_type \in {"quantity", "monolingualtext"} /\ target_type = "wikibase-item"
        THEN Drop(add_error(g.ctx, "Unable to resolve type mismatch. Can not convert to type Item"))
        ELSE Drop(add_error(g.ctx, "Unable to resolve type mismatch. Can not convert")))

\* the wikibase-item branch emitting the source id when there is no mapping
TranslateItemSnak_passthrough(ctx, snak, new_property_number) ==
    Emit(ctx, Snak(new_property_number, "wikibase-item", snak.snaktype, snak.datavalue))

\* _translate_snak, case WbiDataTypes.WIKIBASE_ITEM
TranslateItemSnak(ctx, snak, new_property_number) ==
    With(IF snak.datavalue.value # NULL THEN CtxGetMapping(ctx, snak.datavalue.value)
         ELSE [ctx |-> ctx, ret |-> NULL],
         LAMBDA g :
            LET source_id == snak.datavalue.value
                mapped_id == g.ret
            IN  IF g.ctx.raised THEN Drop(g.ctx)
                ELSE IF mapped_id # NULL
                THEN Emit(g.ctx, Snak(new_property_number, "wikibase-item", snak.snaktype,
                                      EntityIdValue(mapped_id)))
                ELSE Drop(add_missing_item(g.ctx, source_id)))

\* datatypes.Quantity(amount=, unit=, upper_bound=, lower_bound=): the datavalue
\* it builds; unit=None is the unit "1" and bounds that are None are left out
Quantity(amount, unit, upper_bound, lower_bound) ==
    IF upper_bound # NULL /\ lower_bound # NULL
    THEN BoundedQuantityValue(amount, IF unit # NULL THEN unit ELSE "1",
                              upper_bound, lower_bound)
    ELSE QuantityValue(amount, IF unit # NULL THEN unit ELSE "1")

\* the quantity branch copying the unit of the source
TranslateQuantitySnak_sourceunit(ctx, snak, new_property_number) ==
    Emit(ctx, Snak(new_property_number, "quantity", snak.snaktype, snak.datavalue))

\* _translate_snak, case WbiDataTypes.QUANTITY; a Quantity built with unit=None is unitless ("1")
TranslateQuantitySnak(ctx, snak, new_property_number) ==
    With(IF get_unit_id(snak) # NULL THEN CtxGetMapping(ctx, get_unit_id(snak))
         ELSE [ctx |-> ctx, ret |-> NULL],
         LAMBDA g :
            LET mapped_unit_id == g.ret
                mapped_unit_url == IF mapped_unit_id # NULL THEN TargetUnit(mapped_unit_id)
                                   ELSE NULL
            IN  IF g.ctx.raised THEN Drop(g.ctx)
                ELSE Emit(g.ctx, Snak(new_property_number, "quantity", snak.snaktype,
                                      Quantity(snak.datavalue.value, mapped_unit_url,
                                               Get(snak.datavalue, "upper_bound"),
                                               Get(snak.datavalue, "lower_bound")))))

\* _translate_snak, the match on snak.datatype
TranslateByDatatype(ctx, snak, new_property_number) ==
    IF snak.datatype = "wikibase-item" THEN TranslateItemSnak(ctx, snak, new_property_number)
    ELSE IF snak.datatype = "quantity" THEN TranslateQuantitySnak(ctx, snak, new_property_number)
    ELSE IF snak.datatype \in CopiedDatatypes
    THEN Emit(ctx, Snak(new_property_number, snak.datatype, snak.snaktype, snak.datavalue))
    ELSE Drop(ctx)

_translate_snak(ctx, snak) ==
    IF ctx.raised THEN Drop(ctx)
    ELSE IF ctx.profile.ignore_unknown_values /\ snak.snaktype = UNKNOWN_VALUE THEN Drop(ctx)
    ELSE IF ctx.profile.ignore_no_values /\ snak.snaktype = NO_VALUE THEN Drop(ctx)
    ELSE With(CtxGetMapping(ctx, snak.property_number), LAMBDA g :
         LET new_property_number == g.ret
         IN  IF g.ctx.raised THEN Drop(g.ctx)
             ELSE IF new_property_number = NULL
             THEN Drop(add_missing_property(g.ctx, snak.property_number))
             ELSE IF snak.snaktype # KNOWN_VALUE
             THEN Emit(g.ctx, Snak(new_property_number, "base-data-type", snak.snaktype, NoDatavalue))
             ELSE IF has_type_mismatch(g.ctx.m, snak.property_number, new_property_number)
             THEN IF ~g.ctx.profile.type_casts_enabled
                  THEN Drop(add_error(g.ctx, "Ignoring Property due to type mismatch and disabled auto type casting"))
                  ELSE _translate_snak_with_type_mismatch(g.ctx, snak)
             ELSE TranslateByDatatype(g.ctx, snak, new_property_number))

\* One call of _translate_snak, entered in the log with what the cache held
\* for the snak's property and for its item value when the call returned
TranslateSnak(ctx, snak) ==
    With(_translate_snak([ctx EXCEPT !.lookups = {}], snak), LAMBDA r :
    LET cached_pid == Get(r.ctx.m.mappings, snak.property_number)
    IN  IF ctx.raised THEN [ctx |-> ctx, out |-> r.out]
        ELSE [ctx |-> [r.ctx EXCEPT !.lookups = @ \cup ctx.lookups, !.log = Append(@,
                        [snak |-> snak, out |-> r.out, raised |-> r.ctx.raised,
                         lookups |-> r.ctx.lookups,
                         errors_added |-> Len(r.ctx.errors) - Len(ctx.errors),
                         property_cached |-> cached_pid,
                         value_cached |-> IF _is_item_and_known_value(snak)
                                          THEN Get(r.ctx.m.mappings, snak.datavalue.value)
                                          ELSE NULL,
                         type_mismatch |-> IF cached_pid # NULL
                                           THEN has_type_mismatch(r.ctx.m, snak.property_number, cached_pid)
                                           ELSE FALSE])],
              out |-> r.out])

\* A list of snaks translated in order: the context after it and the emitted snaks
RECURSIVE TranslateSnaks(_, _)
TranslateSnaks(ctx, snaks) ==
    IF snaks = <<>> THEN [ctx |-> ctx, out |-> <<>>]
    ELSE With(TranslateSnak(ctx, Head(snaks)), LAMBDA h :
         With(TranslateSnaks(h.ctx, Tail(snaks)), LAMBDA t :
            [ctx |-> t.ctx, out |-> h.out \o t.out]))

translate_qualifiers(ctx, claim) == TranslateSnaks(ctx, claim.qualifiers)

RECURSIVE TranslateReferenceBlocks(_, _)
TranslateReferenceBlocks(ctx, references) ==
    IF references = <<>> THEN [ctx |-> ctx, out |-> <<>>]
    ELSE With(TranslateSnaks(ctx, Head(references)), LAMBDA h :
         With(TranslateReferenceBlocks(h.ctx, Tail(references)), LAMBDA t :
            [ctx |-> t.ctx,
             out |-> (IF Len(h.out) > 0 THEN <<h.out>> ELSE <<>>) \o t.out]))

translate_references(ctx, claim) == TranslateReferenceBlocks(ctx, claim.references)

\* Claim.quals_equal of wikibaseintegrator: exactly the same qualifiers
quals_equal(olditem, newitem) ==
    /\ Len(olditem.qualifiers) = Len(newitem.qualifiers)
    /\ Range(newitem.qualifiers) \subseteq Range(olditem.qualifiers)

\* Claims.add(claim, MERGE_REFS_OR_APPEND) of wikibaseintegrator: the first claim
\* on the property with an equal main datavalue and the same qualifiers takes the
\* new references; comparing with a claim that has no datavalue is the KeyError
\* the merger's comment reports.
RECURSIVE MergeRefsOrAppendFrom(_, _, _)
MergeRefsOrAppendFrom(claims, claim, i) ==
    IF i > Len(claims) THEN [claims |-> Append(claims, claim), raised |-> FALSE]
    ELSE IF claims[i].mainsnak.property_number # claim.mainsnak.property_number
    THEN MergeRefsOrAppendFrom(claims, claim, i + 1)
    ELSE IF claims[i].mainsnak.datavalue = NoDatavalue \/ claim.mainsnak.datavalue = NoDatavalue
    THEN [claims |-> claims, raised |-> TRUE]
    ELSE IF claims[i].mainsnak.datavalue = claim.mainsnak.datavalue
            /\ quals_equal(claims[i], claim)
    THEN LET new_refs == SelectSeq(claim.references,
                                   LAMBDA r : r \notin Range(claims[i].references))
         IN  [claims |-> [claims EXCEPT ![i].references = @ \o new_refs], raised |-> FALSE]
    ELSE MergeRefsOrAppendFrom(claims, claim, i + 1)

ClaimsAddMergeRefsOrAppend(claims, claim) == MergeRefsOrAppendFrom(claims, claim, 1)

\* translate_claims: the context and the target's claims after the loop; an
\* exception of Claims.add ends the translation
RECURSIVE TranslateClaimsFrom(_, _, _)
TranslateClaimsFrom(ctx, source_claims, target_claims) ==
    IF source_claims = <<>> \/ ctx.raised THEN [ctx |-> ctx, claims |-> target_claims]
    ELSE With(translate_qualifiers(ctx, Head(source_claims)), LAMBDA q :
         With(translate_references(q.ctx, Head(source_claims)), LAMBDA r :
         With(TranslateSnak(r.ctx, Head(source_claims).mainsnak), LAMBDA s :
         With(IF s.out # <<>>
              THEN ClaimsAddMergeRefsOrAppend(target_claims, Claim(s.out[1], q.out, r.out))
              ELSE [claims |-> target_claims, raised |-> FALSE],
              LAMBDA added :
                 TranslateClaimsFrom([s.ctx EXCEPT !.raised = @ \/ added.raised],
                                     Tail(source_claims), added.claims)))))

translate_claims(ctx, source, target) ==
    With(TranslateClaimsFrom(ctx, source.claims, target.claims), LAMBDA r :
        [ctx |-> r.ctx, entity |-> [target EXCEPT !.claims = r.claims]])

\* translate_labels without the test on the language
translate_labels_unfiltered(source, target, allowed_languages) ==
    [target EXCEPT !.labels = Update(@, source.labels)]

translate_labels(source, target, allowed_languages) ==
    [target EXCEPT !.labels =
        Update(@, [l \in (DOMAIN source.labels) \cap allowed_languages |-> source.labels[l]])]

translate_descriptions(source, target, allowed_languages) ==
    [target EXCEPT !.descriptions =
        Update(@, [l \in { x \in (DOMAIN source.descriptions) \cap allowed_languages :
                             source.descriptions[x] # Get(source.labels, x) }
                   |-> source.descriptions[l]])]

translate_aliases(source, target, allowed_languages) ==
    [target EXCEPT !.aliases =
        Update(@, [l \in (DOMAIN source.aliases) \cap allowed_languages |-> source.aliases[l]])]

translate_sitelinks(source, target, allowed_sitelinks) ==
    IF source.ETYPE \in support_sitelinks
    THEN [target EXCEPT !.sitelinks =
            Update(@, [k \in (DOMAIN source.sitelinks) \cap allowed_sitelinks |-> source.sitelinks[k]])]
    ELSE target

\* add_back_reference: the entity with its back reference, or the ValueError
add_back_reference(prof, entity, source_id) ==
    IF ~prof.back_reference.defined \/ entity.ETYPE \notin {"item", "property"}
    THEN [entity |-> entity, raised |-> FALSE]
    ELSE LET back_reference == IF entity.ETYPE = "item" THEN prof.back_reference.item
                               ELSE prof.back_reference.property
         IN  IF back_reference.reference_type = "Sitelink"
             THEN IF entity.ETYPE \in support_sitelinks
                  THEN [entity |-> [entity EXCEPT !.sitelinks =
                                        Update(@, [k \in {back_reference.property_id} |-> source_id])],
                        raised |-> FALSE]
                  ELSE [entity |-> entity, raised |-> TRUE]
             ELSE [entity |-> [entity EXCEPT !.claims =
                                  Append(@, Claim(Snak(back_reference.property_id, "external-id",
                                                       KNOWN_VALUE, StringValue(source_id)),
                                                  <<>>, <<>>))],
                   raised |-> FALSE]

\* translate_entity raised: the mapper it left behind and the lists of its
\* EntityTranslationResult as they were when the exception left the call
Raised(ctx, entity) ==
    [raised |-> TRUE, m |-> ctx.m, issued |-> ctx.issued, original_entity |-> entity,
     entity |-> NewEntity(entity.ETYPE), missing_properties |-> ctx.missing_properties,
     missing_items |-> ctx.missing_items, entity_mapping |-> EmptyDict,
     created_entity |-> <<>>, errors |-> ctx.errors, lookups |-> ctx.lookups,
     requeried |-> ctx.requeried, log |-> ctx.log]

\* translate_entity after prepare_mapper_cache (p is what the prime did)
TranslatePrimed(p, entity, flt, ord, prof, with_back_reference) ==
    LET ctx1 == [NewContext(p.m, flt, ord, prof) EXCEPT !.raised = p.raised,
                                                        !.issued = p.issued]
        \* add_translation_result_mappings: every harvested id is cached by now
        entity_mapping == [id \in get_all_entity_ids(entity) |-> Get(p.m.mappings, id)]
        translated ==
            translate_sitelinks(entity,
                translate_aliases(entity,
                    translate_descriptions(entity,
                        translate_labels(entity, NewEntity(entity.ETYPE), prof.languages),
                        prof.languages),
                    prof.languages),
                prof.sitelinks)
    IN  IF p.raised THEN Raised(ctx1, entity)
        ELSE With(translate_claims(ctx1, entity, translated), LAMBDA c :
             With(IF with_back_reference THEN add_back_reference(prof, c.entity, entity.id)
                  ELSE [entity |-> c.entity, raised |-> FALSE],
                  LAMBDA b :
                     IF c.ctx.raised \/ b.raised THEN Raised(c.ctx, entity)
                     ELSE [raised |-> FALSE, m |-> c.ctx.m, issued |-> c.ctx.issued,
                           original_entity |-> entity, entity |-> b.entity,
                           missing_properties |-> c.ctx.missing_properties,
                           missing_items |-> c.ctx.missing_items,
                           entity_mapping |-> entity_mapping, created_entity |-> <<>>,
                           errors |-> c.ctx.errors, lookups |-> c.ctx.lookups,
                           requeried |-> c.ctx.requeried, log |-> c.ctx.log]))

translate_entity(m, entity, flt, ord, prof, with_back_reference) ==
    TranslatePrimed(prepare_cache_for(m, get_all_entity_ids(entity), flt, ord),
                    entity, flt, ord, prof, with_back_reference)

---------------------------------------------------------------------------
(* Actions of the mapping cache. Each call draws the requests that fail     *)
(* while it runs and the order in which the raw mapping set iterates.      *)

\* The ids the mapper is called with directly
MapperIds == {"P1", "Q1", "Q2", "L1"}
IdLists == { s \in SUBSET MapperIds : Cardinality(s) >= 1 /\ Cardinality(s) <= MaxIds }

NoOp == [op |-> "init", ids |-> {}, raised |-> FALSE, issued |-> {},
         failed |-> {}, unqueried |-> {}, ret |-> NULL]
NoRepeat == [yes |-> FALSE, first_issued |-> {}]

\* type_casts and mapping defaults of the profile model, no back reference
DefaultProfile ==
    [ignore_unknown_values |-> FALSE, ignore_no_values |-> FALSE,
     type_casts_enabled |-> TRUE, fallback_language |-> "mul",
     languages |-> {"en"}, sitelinks |-> {},
     back_reference |-> [defined |-> FALSE,
                         item |-> [reference_type |-> "Sitelink", property_id |-> NULL],
                         property |-> [reference_type |-> "Sitelink", property_id |-> NULL]]]

\* the result variable before any translation
NoResult ==
    [raised |-> FALSE, original_entity |-> NewEntity("item"),
     entity |-> NewEntity("item"), missing_properties |-> <<>>, missing_items |-> <<>>,
     entity_mapping |-> EmptyDict, created_entity |-> <<>>, errors |-> <<>>,
     lookups |-> {}, requeried |-> {}, log |-> <<>>]

\* the session variable of a fresh mapper
NoSession ==
    [order |-> "asc", updated |-> FALSE, asked |-> NULL, ret |-> NULL,
     returned |-> EmptyDict]

\* the merging variable before any merge
NoMerge ==
    [phase |-> "new", source |-> NewEntity("item"), target |-> NewEntity("item"),
     entity |-> NewEntity("item"), raised |-> FALSE, log |-> <<>>]

\* the migration variable before migrate_entities_to_target
NoMigration ==
    [phase |-> "new",
     auth |-> [bot_password |-> FALSE, consumer_key |-> FALSE, user_token |-> FALSE,
               password |-> FALSE],
     login |-> "none", callback |-> FALSE,
     translations |-> <<>>, main |-> 0, pc |-> "submit", futures |-> <<>>,
     done |-> <<>>, calls |-> <<>>, results |-> <<>>]

\* the cli variable before the migrate command runs
NoCli ==
    [phase |-> "new", force |-> FALSE, answer |-> NULL, prompted |-> FALSE,
     exit_code |-> NULL]

\* the prime variable while no query_mappings_for is in progress
NoPrime ==
    [pc |-> "idle", ids |-> {}, flt |-> {}, ord |-> "asc",
     read |-> NULL, ret |-> NULL, in_flight |-> FALSE, will_map |-> FALSE]

\* the batch variable before translate_entities_by_id
NoBatch ==
    [phase |-> "new", item_ids |-> <<>>, merge_existing |-> FALSE, aborted_by |-> NULL,
     failed_entity |-> NULL, merge_raised_for |-> {}, translations |-> <<>>,
     login |-> "none", done |-> <<>>, results |-> <<>>]

SetMapper(m) ==
    /\ raw_mappings' = m.raw
    /\ mappings' = m.mappings
    /\ source_property_types' = m.spt
    /\ target_property_types' = m.tpt

Record(op, ids, r, ret) ==
    [op |-> op, ids |-> ids, raised |-> r.raised, issued |-> r.issued,
     failed |-> r.failed, unqueried |-> r.unqueried, ret |-> ret]

PrepareCacheFor(ids, flt, ord) ==
    LET r == prepare_cache_for(Mapper, ids, flt, ord)
    IN  /\ SetMapper(r.m)
        /\ last' = Record("prepare_cache_for", ids, r, NULL)
        /\ repeat' = IF last.op = "prepare_cache_for" /\ last.ids = ids
                     THEN [yes |-> TRUE, first_issued |-> last.issued]
                     ELSE NoRepeat
        /\ UNCHANGED <<profile, result, batch, merging, session, migration, cli, prime>>

QueryMappingsFor(ids, flt, ord) ==
    LET r == query_mappings_for(Mapper, ids, flt, ord)
    IN  /\ SetMapper(r.m)
        /\ last' = Record("query_mappings_for", ids, r, NULL)
        /\ repeat' = NoRepeat
        /\ UNCHANGED <<profile, result, batch, merging, session, migration, cli, prime>>

GetMappingFor(id, flt, ord) ==
    LET r == get_mapping_for(Mapper, id, flt, ord)
    IN  /\ SetMapper(r.m)
        /\ last' = Record("get_mapping_for", {id}, r, r.ret)
        /\ repeat' = NoRepeat
        /\ UNCHANGED <<profile, result, batch, merging, session, migration, cli, prime>>


Init ==
    /\ raw_mappings = {}
    /\ mappings = EmptyDict
    /\ source_property_types = EmptyDict
    /\ target_property_types = EmptyDict
    /\ last = NoOp
    /\ repeat = NoRepeat
    /\ profile = DefaultProfile
    /\ result = NoResult
    /\ batch = NoBatch
    /\ merging = NoMerge
    /\ session = NoSession
    /\ migration = NoMigration
    /\ cli = NoCli
    /\ prime = NoPrime

Next ==
    \/ \E ids \in IdLists, flt \in FaultSets, ord \in SetOrders : PrepareCacheFor(ids, flt, ord)
    \/ \E ids \in IdLists, flt \in FaultSets, ord \in SetOrders : QueryMappingsFor(ids, flt, ord)
    \/ \E id \in MapperIds, flt \in FaultSets, ord \in SetOrders : GetMappingFor(id, flt, ord)

Spec == Init /\ [][Next]_vars

---------------------------------------------------------------------------
(* SpecResolve: one mapper session over sources with several targets. The  *)
(* raw mapping set is a Python set: it iterates in one order as long as it *)
(* is not added to, and an add may rehash it into another order.           *)

\* The ids the session asks for: a property with one target, a property with
\* two targets one of which has its datatype, a property with two targets of
\* other datatypes, an item with two targets
SessionIds == {"P1", "P11", "P12", "Q1"}
SessionIdLists == { s \in SUBSET SessionIds : Cardinality(s) >= 1 /\ Cardinality(s) <= MaxIds }

\* The requests that fail during one call of the session: none, a datatype
\* request, or the item mapping request after the property rows were stored
SessionFaults == { {}, {"source_types"}, {"target_types"}, {"item_mapping"} }

\* the session after a call that left the mapper r.m: ord is the order the raw
\* set iterated in, which is the order before unless the set has grown; asked
\* and ret are the argument and the value of a get_mapping_for
SessionAfter(ord, r, updated, asked, ret) ==
    /\ (r.m.raw = raw_mappings => ord = session.order)
    /\ session' =
          [order |-> ord, updated |-> updated, asked |-> asked, ret |-> ret,
           returned |-> IF asked # NULL /\ ret # NULL
                        THEN Update([id \in {asked} |-> ret], session.returned)
                        ELSE session.returned]

\* prepare_cache_for in a session; update_cache has run when query_mappings_for
\* was called and returned
SessionPrepare(ids, flt, ord) ==
    LET r == prepare_cache_for(Mapper, ids, flt, ord)
    IN  /\ SetMapper(r.m)
        /\ SessionAfter(ord, r, ItemsToQuery(mappings, ids) # {} /\ ~r.raised, NULL, NULL)
        /\ UNCHANGED <<last, repeat, profile, result, batch, merging, migration, cli, prime>>

\* get_mapping_for in a session
SessionGet(id, flt, ord) ==
    LET r == get_mapping_for(Mapper, id, flt, ord)
    IN  /\ SetMapper(r.m)
        /\ SessionAfter(ord, r, ~is_cached(mappings, id) /\ ~r.raised, id, r.ret)
        /\ UNCHANGED <<last, repeat, profile, result, batch, merging, migration, cli, prime>>

NextResolve ==
    \/ \E ids \in SessionIdLists, flt \in SessionFaults, ord \in SetOrders :
            SessionPrepare(ids, flt, ord)
    \/ \E id \in SessionIds, flt \in SessionFaults, ord \in SetOrders :
            SessionGet(id, flt, ord)

SpecResolve == Init /\ [][NextResolve]_vars

---------------------------------------------------------------------------
(* SpecPrime: one thread primes the cache with prepare_cache_for while     *)
(* another thread calls get_mapping_for. The mapper takes no lock, so the  *)
(* reader runs between any two statements of query_mappings_for that       *)
(* write the mapper.                                                       *)

PrimeIds == {"P1", "P3", "Q1", "Q2"}
PrimeIdLists == { s \in SUBSET PrimeIds : Cardinality(s) >= 1 /\ Cardinality(s) <= MaxIds }

\* The requests that fail during a call of the reader: none, or its mapping query
ReaderFaults == { {}, {"property_mapping"}, {"item_mapping"} }

\* the ids of the prime in progress whose mapping query has not run yet
InFlight(p) ==
    IF p.pc = "property" THEN { i \in p.ids : Prefix(i) \in {"P", "Q"} }
    ELSE IF p.pc = "item" THEN { i \in p.ids : Prefix(i) = "Q" }
    ELSE {}

\* the mapping query of the prime in progress will bind a target for the id
WillMap(p, id) ==
    /\ \E r \in MappingRows({id}) : r[2] # NULL
    /\ (IF Prefix(id) = "P" THEN "property_mapping" ELSE "item_mapping") \notin p.flt
    /\ (Prefix(id) = "Q" /\ p.pc = "property" /\ \E i \in p.ids : Prefix(i) = "P")
            => "property_mapping" \notin p.flt

\* prepare_cache_for up to self._init_cache_for(ids) of query_mappings_for
PrimeInitCache(ids, flt, ord) ==
    /\ prime.pc = "idle"
    /\ ItemsToQuery(mappings, ids) # {}
    /\ mappings' = _init_cache_for(mappings, ItemsToQuery(mappings, ids))
    /\ prime' = [prime EXCEPT !.pc = "property", !.ids = ItemsToQuery(mappings, ids),
                              !.flt = flt, !.ord = ord]
    /\ UNCHANGED <<raw_mappings, source_property_types, target_property_types,
                   last, repeat, profile, result, batch, merging, session, migration, cli>>

\* one turn of the loop over ids_queries: the query for the property ids, then
\* the one for the item ids; no request for an empty list, and the exception
\* of a failed request ends the prime
PrimeQuery(id_type) ==
    /\ prime.pc = id_type
    /\ With({ i \in prime.ids : Prefix(i) = (IF id_type = "property" THEN "P" ELSE "Q") },
            LAMBDA id_values :
              IF id_values # {} /\ (IF id_type = "property" THEN "property_mapping"
                                    ELSE "item_mapping") \in prime.flt
              THEN /\ prime' = [prime EXCEPT !.pc = "idle"]
                   /\ UNCHANGED raw_mappings
              ELSE /\ prime' = [prime EXCEPT !.pc = IF id_type = "property" THEN "item"
                                                    ELSE "types"]
                   /\ raw_mappings' = IF id_values # {}
                                      THEN _update_raw_cache(raw_mappings, MappingRows(id_values))
                                      ELSE raw_mappings)
    /\ UNCHANGED <<mappings, source_property_types, target_property_types,
                   last, repeat, profile, result, batch, merging, session, migration, cli>>

\* self.update_property_type_map(): both tasks have run when the executor is left
PrimeUpdatePropertyTypeMap ==
    /\ prime.pc = "types"
    /\ source_property_types' = _update_source_property_types(Mapper, prime.flt).spt
    /\ target_property_types' = _update_target_property_types(Mapper, prime.flt).tpt
    /\ prime' = [prime EXCEPT !.pc = "update_cache"]
    /\ UNCHANGED <<raw_mappings, mappings,
                   last, repeat, profile, result, batch, merging, session, migration, cli>>

\* self.update_cache()
PrimeUpdateCache ==
    /\ prime.pc = "update_cache"
    /\ mappings' = update_cache(Mapper, prime.ord)
    /\ prime' = [prime EXCEPT !.pc = "idle"]
    /\ UNCHANGED <<raw_mappings, source_property_types, target_property_types,
                   last, repeat, profile, result, batch, merging, session, migration, cli>>

\* get_mapping_for(id) in the other thread; read, ret, in_flight and will_map
\* record the call against the prime in progress
ConcurrentGet(id, flt, ord) ==
    LET r == get_mapping_for(Mapper, id, flt, ord)
    IN  /\ SetMapper(r.m)
        /\ prime' = [prime EXCEPT !.read = id, !.ret = r.ret,
                                  !.in_flight = id \in InFlight(prime),
                                  !.will_map = WillMap(prime, id)]
        /\ UNCHANGED <<last, repeat, profile, result, batch, merging, session,
                       migration, cli>>

NextPrime ==
    \/ \E ids \in PrimeIdLists, flt \in FaultSets, ord \in SetOrders :
            PrimeInitCache(ids, flt, ord)
    \/ \E id_type \in {"property", "item"} : PrimeQuery(id_type)
    \/ PrimeUpdatePropertyTypeMap
    \/ PrimeUpdateCache
    \/ \E id \in PrimeIds, flt \in ReaderFaults : ConcurrentGet(id, flt, prime.ord)

SpecPrime == Init /\ [][NextPrime]_vars

---------------------------------------------------------------------------
(* SpecTranslate: translate_entity over a pool of source entities          *)

Profiles ==
    { DefaultProfile,
      [DefaultProfile EXCEPT !.ignore_unknown_values = TRUE, !.ignore_no_values = TRUE,
                             !.type_casts_enabled = FALSE, !.sitelinks = {"enwiki"},
                             !.back_reference =
                                [defined |-> TRUE,
                                 item |-> [reference_type |-> "Sitelink", property_id |-> "source_wiki"],
                                 property |-> [reference_type |-> "Sitelink", property_id |-> "source_wiki"]]],
      [DefaultProfile EXCEPT !.ignore_unknown_values = TRUE,
                             !.back_reference =
                                [defined |-> TRUE,
                                 item |-> [reference_type |-> "Property", property_id |-> "P100"],
                                 property |-> [reference_type |-> "Property", property_id |-> "P100"]]] }

ItemKnown == Snak("P1", "wikibase-item", KNOWN_VALUE, EntityIdValue("Q1"))
ItemUnmapped == Snak("P1", "wikibase-item", KNOWN_VALUE, EntityIdValue("Q2"))
ItemUnknownValue == Snak("P1", "wikibase-item", UNKNOWN_VALUE, NoDatavalue)
ItemNoValue == Snak("P1", "wikibase-item", NO_VALUE, NoDatavalue)
StringCastable == Snak("P2", "string", KNOWN_VALUE, StringValue("1"))
StringUncastable == Snak("P2", "string", KNOWN_VALUE, StringValue("abc"))
StringUnmappedProperty == Snak("P3", "string", KNOWN_VALUE, StringValue("abc"))
StringPlain == Snak("P4", "string", KNOWN_VALUE, StringValue("abc"))

StringToExternalId == Snak("P5", "string", KNOWN_VALUE, StringValue("abc"))
MonolingualToString == Snak("P6", "monolingualtext", KNOWN_VALUE, MonolingualValue("text", "de"))
StringToMonolingual == Snak("P7", "string", KNOWN_VALUE, StringValue("abc"))
QuantityToString == Snak("P9", "quantity", KNOWN_VALUE, QuantityValue("+5", "1"))
QuantityMappedUnit == Snak("P8", "quantity", KNOWN_VALUE, QuantityValue("+5", "src/Q1"))
QuantityUnmappedUnit == Snak("P8", "quantity", KNOWN_VALUE, QuantityValue("-2", "src/Q2"))
QuantityUnitless == Snak("P8", "quantity", KNOWN_VALUE, QuantityValue("+5", "1"))
QuantityBounded ==
    Snak("P8", "quantity", KNOWN_VALUE, BoundedQuantityValue("+5", "src/Q1", "+6", "+4"))
MathKnown == Snak("P13", "math", KNOWN_VALUE, StringValue("x^2"))

ItemSnaks == { ItemKnown, ItemUnmapped, ItemUnknownValue, ItemNoValue }

\* the casts between datatypes, one claim each
CastClaims ==
    << Claim(StringToExternalId, <<>>, <<>>), Claim(MonolingualToString, <<>>, <<>>),
       Claim(StringToMonolingual, <<>>, <<>>), Claim(QuantityToString, <<>>, <<>>) >>

\* quantities with and without a unit entity and with bounds, and a formula,
\* as main snak, qualifier and reference
QuantityClaims ==
    << Claim(QuantityMappedUnit, <<QuantityUnitless>>, << <<QuantityMappedUnit>> >>),
       Claim(QuantityUnitless, <<QuantityMappedUnit, ItemKnown>>, << <<ItemUnmapped>> >>),
       Claim(QuantityUnmappedUnit, <<>>, <<>>),
       Claim(QuantityBounded, <<MathKnown>>, << <<MathKnown>> >>),
       Claim(MathKnown, <<QuantityBounded>>, <<>>) >>

\* the four string snaks, one claim each
StringClaims ==
    << Claim(StringCastable, <<>>, <<>>), Claim(StringUncastable, <<>>, <<>>),
       Claim(StringUnmappedProperty, <<>>, <<>>), Claim(StringPlain, <<>>, <<>>) >>

\* one claim with every kind of snak among its qualifiers and references
MixedClaims ==
    << Claim(ItemKnown,
             << ItemUnmapped, StringUnmappedProperty, StringPlain, ItemKnown >>,
             << << ItemKnown, StringCastable >>, << StringUnmappedProperty, ItemUnmapped >> >>) >>

\* no claim; one claim on an item snak, alone, with one qualifier or with one
\* reference of one snak; two claims on item snaks; the string claims; the
\* mixed claim
ClaimLists ==
    { <<>>, StringClaims, MixedClaims }
        \cup { <<Claim(s, <<>>, <<>>)>> : s \in ItemSnaks }
        \cup { <<Claim(ItemKnown, <<q>>, <<>>)>> : q \in {ItemKnown, ItemUnmapped} }
        \cup { <<Claim(ItemKnown, <<>>, << <<r>> >>)>> : r \in {ItemKnown, ItemUnmapped} }
        \cup { <<Claim(s, <<>>, <<>>), Claim(t, <<>>, <<>>)>> :
                    s \in {ItemKnown, ItemUnknownValue},
                    t \in {ItemKnown, ItemUnknownValue} }

SourceLabels == [l \in {"en", "de"} |-> IF l = "en" THEN "name" ELSE "Name"]
SourceDescriptions == [l \in {"en", "de"} |-> IF l = "en" THEN "name" ELSE "text"]
SourceAliases == [l \in {"de"} |-> <<"alias">>]
SourceSitelinks == [k \in {"enwiki", "dewiki"} |-> "Page"]

SourceItem(id, claims) ==
    Entity(id, "item", SourceLabels, SourceDescriptions, SourceAliases, SourceSitelinks, claims)
SourceProperty(id, claims) ==
    Entity(id, "property", SourceLabels, SourceDescriptions, SourceAliases, EmptyDict, claims)

SourceEntities ==
    { SourceItem("Q2", c) : c \in ClaimLists }
        \cup { SourceProperty("P4", StringClaims) }

ResultFields ==
    {"raised", "original_entity", "entity", "missing_properties", "missing_items",
     "entity_mapping", "created_entity", "errors", "lookups", "requeried", "log"}

\* translate_entity, called when the caller holds no earlier result
TranslateEntity(entity, flt, ord) ==
    LET r == translate_entity(Mapper, entity, flt, ord, profile, TRUE)
    IN  /\ result = NoResult
        /\ SetMapper(r.m)
        /\ result' = [f \in ResultFields |-> r[f]]
        /\ UNCHANGED <<last, repeat, profile, batch, merging, session, migration, cli, prime>>

\* The caller is done with the result of the last translation
ReleaseResult ==
    /\ result # NoResult
    /\ result' = NoResult
    /\ UNCHANGED <<mapper_vars, last, repeat, profile, batch, merging, session, migration, cli, prime>>

InitTranslate ==
    /\ raw_mappings = {}
    /\ mappings = EmptyDict
    /\ source_property_types = EmptyDict
    /\ target_property_types = EmptyDict
    /\ last = NoOp
    /\ repeat = NoRepeat
    /\ profile \in Profiles
    /\ result = NoResult
    /\ batch = NoBatch
    /\ merging = NoMerge
    /\ session = NoSession
    /\ migration = NoMigration
    /\ cli = NoCli
    /\ prime = NoPrime

\* A failed mapping request ends the priming before any set of targets is
\* iterated, so the iteration order is drawn for the other requests only
Environments ==
    { <<flt, ord>> : flt \in FaultSets, ord \in SetOrders } \
        { <<{r}, "desc">> : r \in {"property_mapping", "item_mapping"} }

NextTranslate ==
    \/ \E entity \in SourceEntities, env \in Environments :
            TranslateEntity(entity, env[1], env[2])
    \/ ReleaseResult

SpecTranslate == InitTranslate /\ [][NextTranslate]_vars

---------------------------------------------------------------------------
(* SpecCast: translate_entity over entities whose snaks need a cast of the *)
(* datatype or carry a quantity                                            *)

CastEntities ==
    { SourceItem("Q2", c) : c \in {StringClaims, CastClaims, QuantityClaims} }

NextCast ==
    \/ \E entity \in CastEntities, env \in Environments :
            TranslateEntity(entity, env[1], env[2])
    \/ ReleaseResult

SpecCast == InitTranslate /\ [][NextCast]_vars

---------------------------------------------------------------------------
(* EntityMerger (merger.py), on the entities of the translator             *)

\* _get_datavalue_hash: the hash of the datavalue's JSON; two datavalues have
\* one hash exactly when they have the same content
_get_datavalue_hash(datavalue) ==
    <<datavalue.type, datavalue.value, datavalue.unit, datavalue.language>>

\* _get_reference_hash: the sum of the datavalue hashes of the reference's
\* snaks, that is the multiset of these hashes
_get_reference_hash(reference) ==
    LET hashes == { _get_datavalue_hash(reference[i].datavalue) : i \in 1..Len(reference) }
    IN  [h \in hashes |->
            Cardinality({ i \in 1..Len(reference) :
                            _get_datavalue_hash(reference[i].datavalue) = h })]

_has_equivalent_snak(snak, snaks) ==
    \E i \in 1..Len(snaks) :
        _get_datavalue_hash(snaks[i].datavalue) = _get_datavalue_hash(snak.datavalue)

_has_equivalent_reference(reference, references) ==
    \E i \in 1..Len(references) :
        _get_reference_hash(references[i]) = _get_reference_hash(reference)

\* the first loop of _merge_claim: target.qualifiers.get(property) are the
\* target's qualifiers on the property
RECURSIVE MergeQualifiersFrom(_, _)
MergeQualifiersFrom(source_qualifiers, target_qualifiers) ==
    IF source_qualifiers = <<>> THEN target_qualifiers
    ELSE LET qualifier == Head(source_qualifiers)
             same_property == SelectSeq(target_qualifiers,
                                LAMBDA t : t.property_number = qualifier.property_number)
         IN  MergeQualifiersFrom(Tail(source_qualifiers),
                IF _has_equivalent_snak(qualifier, same_property) THEN target_qualifiers
                ELSE Append(target_qualifiers, qualifier))

\* the second loop of _merge_claim
RECURSIVE MergeReferencesFrom(_, _)
MergeReferencesFrom(source_references, target_references) ==
    IF source_references = <<>> THEN target_references
    ELSE LET reference == Head(source_references)
         IN  MergeReferencesFrom(Tail(source_references),
                IF _has_equivalent_reference(reference, target_references) THEN target_references
                ELSE Append(target_references, reference))

_merge_claim(source, target) ==
    [target EXCEPT !.qualifiers = MergeQualifiersFrom(source.qualifiers, @),
                   !.references = MergeReferencesFrom(source.references, @)]

\* _find_equivalent_mainsnak without the test on the qualifiers
_find_equivalent_mainsnak_any(claim, claims) ==
    LET hits == { i \in 1..Len(claims) :
                    /\ claims[i].mainsnak.property_number = claim.mainsnak.property_number
                    /\ _get_datavalue_hash(claims[i].mainsnak.datavalue)
                          = _get_datavalue_hash(claim.mainsnak.datavalue) }
    IN  IF hits = {} THEN 0 ELSE CHOOSE i \in hits : \A j \in hits : i <= j

\* _find_equivalent_mainsnak over target.claims.get(property): the position of
\* the first equivalent claim of the target, 0 for False
_find_equivalent_mainsnak(claim, claims) ==
    LET hits == { i \in 1..Len(claims) :
                    /\ claims[i].mainsnak.property_number = claim.mainsnak.property_number
                    /\ _get_datavalue_hash(claims[i].mainsnak.datavalue)
                          = _get_datavalue_hash(claim.mainsnak.datavalue)
                    /\ (Len(claims[i].qualifiers) = 0 \/ Len(claim.qualifiers) = 0) }
    IN  IF hits = {} THEN 0 ELSE CHOOSE i \in hits : \A j \in hits : i <= j

\* the loop of _merge_statements; the KeyError of Claims.add ends the merge. log
\* holds, per source claim, the target's claims before and after the claim and
\* the branch taken
RECURSIVE MergeStatementsFrom(_, _, _)
MergeStatementsFrom(source_claims, target_claims, log) ==
    IF source_claims = <<>> THEN [claims |-> target_claims, raised |-> FALSE, log |-> log]
    ELSE With(_find_equivalent_mainsnak(Head(source_claims), target_claims),
              LAMBDA merge_with_claim :
         IF merge_with_claim # 0
         THEN With([target_claims EXCEPT
                       ![merge_with_claim] = _merge_claim(Head(source_claims), @)],
                   LAMBDA merged_claims :
                      MergeStatementsFrom(Tail(source_claims), merged_claims,
                          Append(log, [source_claim |-> Head(source_claims),
                                       before |-> target_claims, after |-> merged_claims,
                                       branch |-> "_merge_claim", at |-> merge_with_claim])))
         ELSE With(ClaimsAddMergeRefsOrAppend(target_claims, Head(source_claims)),
                   LAMBDA added :
                      IF added.raised
                      THEN [claims |-> target_claims, raised |-> TRUE,
                            log |-> Append(log, [source_claim |-> Head(source_claims),
                                                 before |-> target_claims,
                                                 after |-> target_claims,
                                                 branch |-> "KeyError", at |-> 0])]
                      ELSE MergeStatementsFrom(Tail(source_claims), added.claims,
                              Append(log, [source_claim |-> Head(source_claims),
                                           before |-> target_claims, after |-> added.claims,
                                           branch |-> "claims.add", at |-> 0]))))

_merge_statements(source, target) ==
    With(MergeStatementsFrom(source.claims, target.claims, <<>>), LAMBDA r :
        [entity |-> [target EXCEPT !.claims = r.claims], raised |-> r.raised, log |-> r.log])

\* action_if_exists = KEEP: a language the target has keeps its label
_merge_labels(source, target) ==
    [target EXCEPT !.labels = Update(source.labels, @)]

_merge_descriptions(source, target) ==
    [target EXCEPT !.descriptions = Update(source.descriptions, @)]

\* APPEND_OR_REPLACE: the source's aliases the target does not have are appended
_merge_aliases(source, target) ==
    [target EXCEPT !.aliases =
        [l \in (DOMAIN @) \cup (DOMAIN source.aliases) |->
            IF l \notin DOMAIN source.aliases THEN @[l]
            ELSE LET existing == IF l \in DOMAIN @ THEN @[l] ELSE <<>>
                 IN  existing \o SelectSeq(source.aliases[l], LAMBDA a : a \notin Range(existing))]]

_merge_sitelinks(source, target) ==
    IF source.ETYPE # "item" THEN target
    ELSE [target EXCEPT !.sitelinks = Update(source.sitelinks, @)]

\* EntityMerger.merge: the merged target, or the exception of the statement merge
merge(source, target) ==
    _merge_statements(source,
        _merge_sitelinks(source,
            _merge_aliases(source,
                _merge_descriptions(source, _merge_labels(source, target)))))

---------------------------------------------------------------------------
(* EntityMerger.merge over pairs of entities (SpecMerge)                    *)

\* The longest claim list of an entity handed to the merger.
MaxClaims == 2

MainQ101 == Snak("P101", "wikibase-item", KNOWN_VALUE, EntityIdValue("Q101"))
MainQ102 == Snak("P101", "wikibase-item", KNOWN_VALUE, EntityIdValue("Q102"))
MainUnknown == Snak("P101", "wikibase-item", UNKNOWN_VALUE, NoDatavalue)
MainNoValue == Snak("P101", "wikibase-item", NO_VALUE, NoDatavalue)
QualA == Snak("P104", "string", KNOWN_VALUE, StringValue("a"))
QualB == Snak("P104", "string", KNOWN_VALUE, StringValue("b"))
RefA == Snak("P104", "string", KNOWN_VALUE, StringValue("ref a"))
RefB == Snak("P104", "string", KNOWN_VALUE, StringValue("ref b"))
RefAOther == Snak("P105", "string", KNOWN_VALUE, StringValue("ref a"))

\* The statements of the merged entities: one value without qualifiers, the
\* same value under two different qualifiers (one of them referenced by the
\* text of RefA under another property), another value, statements with an
\* unknown value and a statement with no value
MergeClaims ==
    { Claim(MainQ101, <<>>, << <<RefA>> >>),
      Claim(MainQ101, <<QualA>>, << <<RefB>> >>),
      Claim(MainQ101, <<QualB>>, << <<RefAOther>> >>),
      Claim(MainQ102, <<>>, <<>>),
      Claim(MainUnknown, <<>>, <<>>),
      Claim(MainUnknown, <<QualA>>, <<>>),
      Claim(MainNoValue, <<>>, <<>>) }

\* the claim lists of an entity: up to MaxClaims statements, none of them twice
MergeClaimLists ==
    UNION { { c \in [1..n -> MergeClaims] : \A i, j \in 1..n : c[i] = c[j] => i = j }
            : n \in 0..MaxClaims }

MergeSources ==
    { Entity(NULL, "item", [l \in {"en"} |-> "source"], EmptyDict,
             [l \in {"en"} |-> <<"alias">>], [k \in {"enwiki"} |-> "Source"], c)
        : c \in MergeClaimLists }

MergeTargets ==
    { Entity("Q101", "item", [l \in {"en", "de"} |-> "target"], EmptyDict,
             EmptyDict, EmptyDict, c)
        : c \in MergeClaimLists }

\* EntityMerger().merge(source, target)
Merge(source, target) ==
    /\ merging = NoMerge
    /\ merging' = With(merge(source, target), LAMBDA r :
                      [phase |-> "merged", source |-> source, target |-> target,
                       entity |-> r.entity, raised |-> r.raised, log |-> r.log])
    /\ UNCHANGED <<mapper_vars, last, repeat, profile, result, batch, session, migration, cli, prime>>

\* the caller drops the merged entity; the next merge starts on fresh arguments
ReleaseMerge ==
    /\ merging # NoMerge
    /\ merging' = NoMerge
    /\ UNCHANGED <<mapper_vars, last, repeat, profile, result, batch, session, migration, cli, prime>>

NextMerge ==
    \/ /\ merging = NoMerge
       /\ \E source \in MergeSources, target \in MergeTargets : Merge(source, target)
    \/ ReleaseMerge

SpecMerge == Init /\ [][NextMerge]_vars

---------------------------------------------------------------------------
(* The batch orchestration of WikibaseMigrator                              *)

\* The largest batch of entity ids handed to translate_entities_by_id.
MaxBatch == 2

\* The source wikibase: a mapped item, an unmapped item, a mapped property and
\* an entity of a kind the migrator does not know
BatchIds == {"Q1", "Q2", "P4", "E1"}

SourceWiki(id) ==
    CASE id = "Q1" -> SourceItem("Q1", << Claim(ItemUnknownValue, <<>>, <<>>),
                                          Claim(StringPlain, <<>>, <<>>) >>)
      [] id = "Q2" -> SourceItem("Q2", << Claim(ItemKnown, <<StringPlain>>, << <<ItemUnmapped>> >>) >>)
      [] OTHER -> SourceProperty("P4", << Claim(StringPlain, <<>>, <<>>) >>)

\* The target wikibase: the entities the mapped source entities map to
TargetWiki(id) ==
    IF Prefix(id) = "P"
    THEN Entity(id, "property", [l \in {"en"} |-> "target"], EmptyDict, EmptyDict, EmptyDict, <<>>)
    ELSE Entity(id, "item", [l \in {"en", "de"} |-> "target"], EmptyDict, EmptyDict, EmptyDict,
                << Claim(Snak("P101", "wikibase-item", KNOWN_VALUE, EntityIdValue("Q102")),
                         <<>>, <<>>) >>)

\* The batches: lists of distinct ids
Batches ==
    { s \in UNION { [1..n -> BatchIds] : n \in 1..MaxBatch } :
        \A i, j \in 1..Len(s) : i # j => s[i] # s[j] }

\* What the wbgetentities request of the source does: it answers, it answers
\* without success, or the call raises
SourceFetches == {"ok", "failed", "raised"}

\* What the fetch of the target entities does: the call raises, or it returns
\* the requested entities but the missing ones
TargetFetches ==
    { [raised |-> TRUE, missing |-> {}] }
        \cup { [raised |-> FALSE, missing |-> s] : s \in { {}, {"Q101"}, {"Q102"}, {"P104"} } }

\* get_entity_batch for the one chunk of get_items: the entities in the order of
\* the request; raised is the exception of the call or UnknownEntityTypeException
get_entity_batch(entity_ids, fetch) ==
    LET unknown == { i \in 1..Len(entity_ids) : Prefix(entity_ids[i]) \notin {"Q", "P", "L", "M"} }
    IN  IF fetch = "raised"
        THEN [entities |-> <<>>, raised |-> TRUE, failed_entity |-> NULL]
        ELSE IF fetch = "failed"
        THEN [entities |-> <<>>, raised |-> FALSE, failed_entity |-> NULL]
        ELSE IF unknown # {}
        THEN [entities |-> <<>>, raised |-> TRUE,
              failed_entity |-> entity_ids[CHOOSE i \in unknown : \A j \in unknown : i <= j]]
        ELSE [entities |-> [i \in 1..Len(entity_ids) |-> SourceWiki(entity_ids[i])],
              raised |-> FALSE, failed_entity |-> NULL]

\* get_items: no request for an empty list of ids; the exception of a chunk
\* leaves through future.result()
get_items(item_ids, fetch) ==
    IF item_ids = <<>> THEN [entities |-> <<>>, raised |-> FALSE, failed_entity |-> NULL]
    ELSE get_entity_batch(item_ids, fetch)

\* An EntityTranslationResult of a batch; own, target_id, merged, write and
\* errors_before record what the batch did with it
Translation(r) ==
    [original_entity |-> r.original_entity, entity |-> r.entity,
     missing_properties |-> r.missing_properties, missing_items |-> r.missing_items,
     entity_mapping |-> r.entity_mapping, created_entity |-> r.created_entity,
     errors |-> r.errors,
     own |-> r.entity, target_id |-> NULL, merged |-> "no", write |-> "none",
     errors_before |-> 0, uncaught |-> FALSE]

\* translated_entities = [self.translate_entity(entity) for entity in entities]:
\* the first translation that raises ends the comprehension
RECURSIVE TranslateEntitiesFrom(_, _, _, _, _, _)
TranslateEntitiesFrom(m, entities, flt, ord, prof, done) ==
    IF entities = <<>>
    THEN [m |-> m, translations |-> done, raised |-> FALSE, failed_entity |-> NULL]
    ELSE With(translate_entity(m, Head(entities), flt, ord, prof, TRUE), LAMBDA r :
             IF r.raised
             THEN [m |-> r.m, translations |-> done, raised |-> TRUE,
                   failed_entity |-> Head(entities).id]
             ELSE TranslateEntitiesFrom(r.m, Tail(entities), flt, ord, prof,
                                        Append(done, Translation(r))))

\* The loop of merge_existing_entities from translation i on. merged_item is
\* the local variable of that name: <<>> while it is unbound.
RECURSIVE MergeLoop(_, _, _, _, _)
MergeLoop(translations, i, merged_item, merge_mapping, target_entities_by_id) ==
    IF i > Len(translations) THEN [translations |-> translations, raised |-> FALSE]
    ELSE LET translated_entity == translations[i]
             source_id == translated_entity.original_entity.id
             target_entity_id == Get(merge_mapping, source_id)
         IN  IF source_id \notin DOMAIN merge_mapping
             THEN MergeLoop(translations, i + 1, merged_item, merge_mapping, target_entities_by_id)
             ELSE IF target_entity_id \notin DOMAIN target_entities_by_id
             THEN MergeLoop([translations EXCEPT ![i].target_id = target_entity_id,
                                                 ![i].merged = "not_found"],
                            i + 1, merged_item, merge_mapping, target_entities_by_id)
             ELSE With(merge(translated_entity.entity, target_entities_by_id[target_entity_id]),
                       LAMBDA r :
                  LET bound == IF r.raised THEN merged_item ELSE <<r.entity>>
                      recorded == [translated_entity EXCEPT
                                      !.target_id = target_entity_id,
                                      !.merged = IF r.raised THEN "raised" ELSE "yes",
                                      !.errors = IF r.raised THEN Append(@, "KeyError") ELSE @]
                  IN  IF bound = <<>>
                      \* UnboundLocalError: merged_item is read before any assignment
                      THEN [translations |-> [translations EXCEPT ![i] = recorded],
                            raised |-> TRUE]
                      ELSE MergeLoop([translations EXCEPT
                                         ![i] = [recorded EXCEPT !.entity = bound[1]]],
                                     i + 1, bound, merge_mapping, target_entities_by_id))

\* merge_existing_entities: every id of a translation is cached by now, so
\* get_mapping_for reads the cache
merge_existing_entities(m, translations, target) ==
    LET source_existing_entity_ids ==
            { translations[i].original_entity.id : i \in
                { j \in 1..Len(translations) :
                    Get(m.mappings, translations[j].original_entity.id) # NULL } }
        merge_mapping ==
            [s \in get_existing_mappings(m.mappings) \cap source_existing_entity_ids
                |-> m.mappings[s]]
        requested == { merge_mapping[s] : s \in DOMAIN merge_mapping }
        target_entities_by_id == [t \in requested \ target.missing |-> TargetWiki(t)]
    IN  IF requested # {} /\ target.raised
        THEN [translations |-> translations, raised |-> TRUE]
        ELSE MergeLoop(translations, 1, <<>>, merge_mapping, target_entities_by_id)

\* translate_entities_by_id: the mapper it leaves behind, the translations it
\* returns, or the exception that ended it (raised, with the step that raised in
\* aborted_by and the entity that step was working on in failed_entity)
translate_entities_by_id(m, item_ids, merge_existing, fetch, flt, ord, target, prof) ==
    LET Abort(mapper, step, failed_entity, merge_raised) ==
            [m |-> mapper, raised |-> TRUE, aborted_by |-> step,
             failed_entity |-> failed_entity, merge_raised_for |-> merge_raised,
             translations |-> <<>>]
        MergeRaisedFor(translations) ==
            { translations[i].original_entity.id :
                i \in { j \in 1..Len(translations) : translations[j].merged = "raised" } }
    IN  With(get_items(item_ids, fetch), LAMBDA fetched :
        IF fetched.raised THEN Abort(m, "get_items_from_source", fetched.failed_entity, {})
        ELSE
        With(prepare_cache_for(m, UNION { get_all_entity_ids(fetched.entities[i]) :
                                            i \in 1..Len(fetched.entities) }, flt, ord),
             LAMBDA p :
        IF p.raised THEN Abort(p.m, "prepare_mapper_cache_by_ids", NULL, {})
        ELSE
        With(TranslateEntitiesFrom(p.m,
                 IF merge_existing THEN fetched.entities
                 ELSE SelectSeq(fetched.entities, LAMBDA e : Get(p.m.mappings, e.id) = NULL),
                 flt, ord, prof, <<>>),
             LAMBDA t :
        IF t.raised THEN Abort(t.m, "translate_entity", t.failed_entity, {})
        ELSE
        With(IF merge_existing THEN merge_existing_entities(t.m, t.translations, target)
             ELSE [translations |-> t.translations, raised |-> FALSE],
             LAMBDA g :
        IF g.raised
        THEN Abort(t.m, "merge_existing_entities", NULL, MergeRaisedFor(g.translations))
        ELSE [m |-> t.m, raised |-> FALSE, aborted_by |-> NULL, failed_entity |-> NULL,
              merge_raised_for |-> MergeRaisedFor(g.translations),
              translations |-> g.translations]))))

\* The ids the target gives to the entities it creates, by the position of the
\* translation in the batch
NewItemIds == <<"Q901", "Q902", "Q903", "Q904">>
NewPropertyIds == <<"P901", "P902", "P903", "P904">>

\* entity.write: the entity the target answers with; an entity without id is
\* created under a new id, an entity with an id is updated
write(entity, i) ==
    [entity EXCEPT !.id = IF @ # NULL THEN @
                          ELSE IF entity.ETYPE = "property" THEN NewPropertyIds[i]
                          ELSE NewItemIds[i]]

\* What the write of one entity does
WriteOutcomes == {"ok", "MWApiError", "Exception"}

\* _migrate_entity without its two except clauses
_migrate_entity_uncaught(translation, i, outcome) ==
    IF outcome = "ok"
    THEN [translation EXCEPT !.created_entity = <<write(translation.entity, i)>>, !.write = "ok"]
    ELSE [translation EXCEPT !.write = outcome, !.uncaught = TRUE]

_migrate_entity(translation, i, outcome) ==
    IF outcome = "ok"
    THEN [translation EXCEPT !.created_entity = <<write(translation.entity, i)>>, !.write = "ok"]
    ELSE IF outcome = "MWApiError"
    THEN [translation EXCEPT !.errors = Append(@, "Error: MWApiError, details: messages"),
                             !.write = outcome]
    ELSE [translation EXCEPT !.errors = Append(@, "Exception"), !.write = outcome]

TranslateEntitiesById(item_ids, merge_existing, fetch, flt, ord, target) ==
    LET r == translate_entities_by_id(Mapper, item_ids, merge_existing, fetch, flt, ord,
                                      target, profile)
    IN  /\ batch.phase = "new"
        /\ SetMapper(r.m)
        /\ batch' = [batch EXCEPT !.phase = IF r.raised THEN "aborted" ELSE "translated",
                                  !.item_ids = item_ids,
                                  !.merge_existing = merge_existing,
                                  !.aborted_by = r.aborted_by,
                                  !.failed_entity = r.failed_entity,
                                  !.merge_raised_for = r.merge_raised_for,
                                  !.translations = r.translations]
        /\ UNCHANGED <<last, repeat, profile, result, merging, session, migration, cli, prime>>

\* migrate_entities_to_target up to the submission of every translation;
\* get_wikibase_login may raise
MigrateEntitiesToTarget(login) ==
    LET submitted == [i \in 1..Len(batch.translations) |->
                        [batch.translations[i] EXCEPT
                            !.write = "pending",
                            !.errors_before = Len(batch.translations[i].errors)]]
    IN  /\ batch.phase = "translated"
        /\ batch' = IF login = "raised"
                    THEN [batch EXCEPT !.phase = "migrate_raised", !.login = login]
                    ELSE [batch EXCEPT !.phase = "migrating", !.login = login,
                                       !.translations = submitted]
        /\ UNCHANGED <<mapper_vars, last, repeat, profile, result, merging, session, migration, cli, prime>>

\* one worker thread runs _migrate_entity on its translation
MigrateEntity(i, outcome) ==
    /\ batch.phase = "migrating"
    /\ i \in 1..Len(batch.translations)
    /\ batch.translations[i].write = "pending"
    /\ batch' = [batch EXCEPT !.translations[i] = _migrate_entity(@, i, outcome),
                              !.done = Append(@, i)]
    /\ UNCHANGED <<mapper_vars, last, repeat, profile, result, merging, session, migration, cli, prime>>

\* every future is done: future.result() of each is collected, an exception of a
\* worker leaves migrate_entities_to_target
MigrateReturn ==
    /\ batch.phase = "migrating"
    /\ \A i \in 1..Len(batch.translations) : batch.translations[i].write # "pending"
    /\ batch' = IF \E i \in 1..Len(batch.translations) : batch.translations[i].uncaught
                THEN [batch EXCEPT !.phase = "migrate_raised"]
                ELSE [batch EXCEPT !.phase = "migrated", !.results = batch.done]
    /\ UNCHANGED <<mapper_vars, last, repeat, profile, result, merging, session, migration, cli, prime>>

InitBatch ==
    /\ raw_mappings = {}
    /\ mappings = EmptyDict
    /\ source_property_types = EmptyDict
    /\ target_property_types = EmptyDict
    /\ last = NoOp
    /\ repeat = NoRepeat
    /\ profile \in Profiles
    /\ result = NoResult
    /\ batch = NoBatch
    /\ merging = NoMerge
    /\ session = NoSession
    /\ migration = NoMigration
    /\ cli = NoCli
    /\ prime = NoPrime

NextBatch ==
    \/ \E item_ids \in Batches, merge_existing \in BOOLEAN, fetch \in SourceFetches,
          env \in Environments, target \in TargetFetches :
            TranslateEntitiesById(item_ids, merge_existing, fetch, env[1], env[2], target)
    \/ \E login \in {"ok", "raised"} : MigrateEntitiesToTarget(login)
    \/ \E i \in 1..MaxBatch, outcome \in WriteOutcomes : MigrateEntity(i, outcome)
    \/ MigrateReturn

SpecBatch == InitBatch /\ [][NextBatch]_vars

---------------------------------------------------------------------------
(* migrate_entities_to_target with its thread pool (SpecMigrate): the main *)
(* thread submits one future per translation and registers the callback on *)
(* it, the workers run _migrate_entity, and a future that is done invokes  *)
(* the callbacks registered on it.                                         *)

\* The authentication fields of the target WikibaseConfig: which are set
AuthConfig(bot_password, consumer_key, user_token, password) ==
    [bot_password |-> bot_password, consumer_key |-> consumer_key,
     user_token |-> user_token, password |-> password]

AuthConfigs ==
    { AuthConfig(FALSE, FALSE, FALSE, FALSE),
      AuthConfig(TRUE, FALSE, FALSE, FALSE),
      AuthConfig(FALSE, TRUE, TRUE, FALSE),
      AuthConfig(FALSE, TRUE, FALSE, FALSE),
      AuthConfig(FALSE, TRUE, FALSE, TRUE),
      AuthConfig(TRUE, TRUE, FALSE, FALSE),
      AuthConfig(FALSE, FALSE, FALSE, TRUE) }

\* a login that goes on without login when the user token is missing
get_wikibase_login_anonymous(wikibase_config, accepted) ==
    IF wikibase_config.bot_password
    THEN IF accepted THEN "Login" ELSE "LoginError"
    ELSE IF wikibase_config.consumer_key /\ wikibase_config.user_token
    THEN IF accepted THEN "OAuth1" ELSE "LoginError"
    ELSE "None"

\* get_wikibase_login: the login object built, or the exception raised; the
\* constructors of wbi_login log in and raise when the wiki refuses (accepted)
get_wikibase_login(wikibase_config, accepted) ==
    IF wikibase_config.bot_password
    THEN IF accepted THEN "Login" ELSE "LoginError"
    ELSE IF wikibase_config.consumer_key
    THEN IF ~wikibase_config.user_token THEN "UserLoginRequiredException"
         ELSE IF accepted THEN "OAuth1" ELSE "LoginError"
    ELSE IF wikibase_config.password
    THEN IF accepted THEN "Clientlogin" ELSE "LoginError"
    ELSE "None"

LoginExceptions == {"UserLoginRequiredException", "LoginError"}

\* The EntitySetTranslationResult handed over: one translation per source id
MigrationIds == {"Q1", "Q2", "P4"}
MigrationBatches ==
    UNION { { b \in [1..n -> MigrationIds] : \A i, j \in 1..n : b[i] = b[j] => i = j }
            : n \in 0..MaxBatch }

MigrationTranslation(id) ==
    Translation([NoResult EXCEPT
        !.original_entity = Entity(id, IF Prefix(id) = "P" THEN "property" ELSE "item",
                                   EmptyDict, EmptyDict, EmptyDict, EmptyDict, <<>>),
        !.entity = NewEntity(IF Prefix(id) = "P" THEN "property" ELSE "item")])

\* a Future of the executor: submits counts the executor.submit calls for the
\* translation, state is pending, finished or notified (its callbacks ran),
\* registered says whether the callback is in its list of done callbacks and
\* calls lists the invocations of the callback with the thread that made
\* them and whether the write attempt was on record then
NoFuture == [submits |-> 0, state |-> "none", registered |-> FALSE, calls |-> <<>>]

\* the write attempt of a translation is on record
Settled(translation) ==
    \/ translation.created_entity # <<>>
    \/ Len(translation.errors) > translation.errors_before

CallOf(thread, translation) == [thread |-> thread, settled |-> Settled(translation)]

\* an add_done_callback that only appends to the list
add_done_callback_appending(future, translation) == [future EXCEPT !.registered = TRUE]

\* Future.add_done_callback: on a future that is done the callback is called
\* at once, in the calling thread; otherwise it is appended to the list
add_done_callback(future, translation) ==
    IF future.state \in {"finished", "notified"}
    THEN [future EXCEPT !.calls = Append(@, CallOf("main", translation))]
    ELSE [future EXCEPT !.registered = TRUE]

\* Future._invoke_callbacks, after set_result
_invoke_callbacks(future, translation) ==
    [future EXCEPT !.state = "notified",
                   !.calls = IF future.registered
                             THEN Append(@, CallOf("worker", translation)) ELSE @]

\* migrate_entities_to_target up to the login: the executor exists and
\* get_wikibase_login has returned or raised
Started(translations, auth, accepted, callback) ==
    With(get_wikibase_login(auth, accepted), LAMBDA login :
          [NoMigration EXCEPT
              !.phase = IF login \in LoginExceptions THEN "raised"
                        ELSE IF translations = <<>> THEN "collecting" ELSE "submitting",
              !.auth = auth, !.login = login, !.callback = callback,
              !.translations = [i \in 1..Len(translations) |->
                                  [translations[i] EXCEPT
                                      !.errors_before = Len(translations[i].errors)]],
              !.main = IF translations = <<>> THEN 0 ELSE 1,
              !.futures = [i \in 1..Len(translations) |-> NoFuture]])

MigrateStart(translations, auth, accepted, callback) ==
    /\ migration.phase = "new"
    /\ migration' = Started(translations, auth, accepted, callback)
    /\ UNCHANGED <<mapper_vars, last, repeat, profile, result, batch, merging, session,
                   cli, prime>>

\* the next translation of the loop, when the loop has come to future.add_done_callback
NextOfLoop(m) ==
    IF m.main < Len(m.translations)
    THEN [m EXCEPT !.main = @ + 1, !.pc = "submit"]
    ELSE [m EXCEPT !.phase = "collecting", !.pc = "submit"]

\* future = executor.submit(self._migrate_entity, entity=entity, ...)
Submit ==
    /\ migration.phase = "submitting" /\ migration.pc = "submit"
    /\ migration' = With([migration EXCEPT
                              !.futures[migration.main].submits = @ + 1,
                              !.futures[migration.main].state = "pending"],
                         LAMBDA m : IF m.callback THEN [m EXCEPT !.pc = "add"]
                                    ELSE NextOfLoop(m))
    /\ UNCHANGED <<mapper_vars, last, repeat, profile, result, batch, merging, session,
                   cli, prime>>

\* future.add_done_callback(entity_done_callback)
AddDoneCallback ==
    /\ migration.phase = "submitting" /\ migration.pc = "add"
    /\ migration' = NextOfLoop([migration EXCEPT
            !.futures[migration.main] =
                add_done_callback(@, migration.translations[migration.main])])
    /\ UNCHANGED <<mapper_vars, last, repeat, profile, result, batch, merging, session,
                   cli, prime>>

\* a worker runs _migrate_entity on the translation of a pending future and
\* sets the result of the future
WorkerRun(i, outcome) ==
    /\ migration.phase \in {"submitting", "collecting"}
    /\ i \in 1..Len(migration.futures)
    /\ migration.futures[i].state = "pending"
    /\ migration' = [migration EXCEPT
            !.translations[i] = _migrate_entity(@, i, outcome),
            !.futures[i].state = "finished",
            !.done = Append(@, i)]
    /\ UNCHANGED <<mapper_vars, last, repeat, profile, result, batch, merging, session,
                   cli, prime>>

\* the worker invokes the callbacks registered on the future it has finished
WorkerInvokeCallbacks(i) ==
    /\ migration.phase \in {"submitting", "collecting"}
    /\ i \in 1..Len(migration.futures)
    /\ migration.futures[i].state = "finished"
    /\ migration' = [migration EXCEPT
            !.futures[i] = _invoke_callbacks(@, migration.translations[i])]
    /\ UNCHANGED <<mapper_vars, last, repeat, profile, result, batch, merging, session,
                   cli, prime>>

\* as_completed has yielded every future and the executor has shut down: the
\* results are returned in the order of completion
MigrateCollect ==
    /\ migration.phase = "collecting"
    /\ \A i \in 1..Len(migration.futures) : migration.futures[i].state = "notified"
    /\ migration' = [migration EXCEPT !.phase = "returned", !.results = migration.done]
    /\ UNCHANGED <<mapper_vars, last, repeat, profile, result, batch, merging, session,
                   cli, prime>>

NextMigrate ==
    \/ \E b \in MigrationBatches, auth \in AuthConfigs, accepted, callback \in BOOLEAN :
            MigrateStart([i \in 1..Len(b) |-> MigrationTranslation(b[i])],
                         auth, accepted, callback)
    \/ Submit
    \/ AddDoneCallback
    \/ \E i \in 1..MaxBatch, outcome \in WriteOutcomes : WorkerRun(i, outcome)
    \/ \E i \in 1..MaxBatch : WorkerInvokeCallbacks(i)
    \/ MigrateCollect

SpecMigrate == Init /\ [][NextMigrate]_vars

---------------------------------------------------------------------------
(* The migrate command of the command line (SpecCli)                       *)

\* What the user types at typer.confirm: yes, no, or nothing (end of input)
Answers == {"y", "n", "EOF"}

\* migrate up to the prompt: a missing profile aborts, an exception of the
\* translation leaves the command, --force skips the prompt and calls
\* migrate_entities_to_target with the progress callback
CliMigrate(profile_exists, force, translated, translations, auth, accepted) ==
    /\ cli.phase = "new" /\ migration.phase = "new"
    /\ cli' = IF ~profile_exists
              THEN [cli EXCEPT !.phase = "aborted", !.force = force, !.exit_code = 1]
              ELSE IF ~translated
              THEN [cli EXCEPT !.phase = "raised", !.force = force, !.exit_code = 1]
              ELSE [cli EXCEPT !.phase = IF force THEN "migrating" ELSE "prompt",
                               !.force = force]
    /\ migration' = IF profile_exists /\ translated /\ force
                    THEN Started(translations, auth, accepted, TRUE)
                    ELSE [migration EXCEPT !.translations = 
                            IF profile_exists /\ translated THEN translations ELSE <<>>]
    /\ UNCHANGED <<mapper_vars, last, repeat, profile, result, batch, merging, session,
                   prime>>

\* a prompt whose answer is not looked at
CliConfirm_ignored(answer, auth, accepted) ==
    /\ cli.phase = "prompt"
    /\ cli' = [cli EXCEPT !.phase = "migrating", !.prompted = TRUE, !.answer = answer]
    /\ migration' = Started(migration.translations, auth, accepted, TRUE)
    /\ UNCHANGED <<mapper_vars, last, repeat, profile, result, batch, merging, session,
                   prime>>

\* typer.confirm returns or aborts; on yes migrate_entities_to_target is called
CliConfirm(answer, auth, accepted) ==
    /\ cli.phase = "prompt"
    /\ cli' = IF answer = "y"
              THEN [cli EXCEPT !.phase = "migrating", !.prompted = TRUE, !.answer = answer]
              ELSE [cli EXCEPT !.phase = "aborted", !.prompted = TRUE, !.answer = answer,
                               !.exit_code = 1]
    /\ migration' = IF answer = "y"
                    THEN Started(migration.translations, auth, accepted, TRUE)
                    ELSE migration
    /\ UNCHANGED <<mapper_vars, last, repeat, profile, result, batch, merging, session,
                   prime>>

\* migrate_entities_to_target has returned or raised; the command ends
CliExit ==
    /\ cli.phase = "migrating"
    /\ migration.phase \in {"returned", "raised"}
    /\ cli' = [cli EXCEPT !.phase = "exited",
                          !.exit_code = IF migration.phase = "returned" THEN 0 ELSE 1]
    /\ UNCHANGED <<mapper_vars, last, repeat, profile, result, batch, merging, session,
                   migration, prime>>

\* the authentication of the target profiles of the command line
CliAuthConfigs ==
    { AuthConfig(FALSE, FALSE, FALSE, FALSE), AuthConfig(TRUE, FALSE, FALSE, FALSE),
      AuthConfig(FALSE, TRUE, FALSE, FALSE) }

NextCli ==
    \/ \E profile_exists, force, translated, accepted \in BOOLEAN,
          b \in MigrationBatches, auth \in CliAuthConfigs :
            CliMigrate(profile_exists, force, translated,
                       [i \in 1..Len(b) |-> MigrationTranslation(b[i])], auth, accepted)
    \/ \E answer \in Answers, auth \in CliAuthConfigs, accepted \in BOOLEAN :
            CliConfirm(answer, auth, accepted)
    \/ Submit
    \/ AddDoneCallback
    \/ \E i \in 1..MaxBatch, outcome \in WriteOutcomes : WorkerRun(i, outcome)
    \/ \E i \in 1..MaxBatch : WorkerInvokeCallbacks(i)
    \/ MigrateCollect
    \/ CliExit

SpecCli == Init /\ [][NextCli]_vars

---------------------------------------------------------------------------
(* Properties of the batch orchestration (SpecBatch)                       *)

\* C5: in migrate_entities_to_target, a translation whose write raised
\* (MWApiError or any other exception) keeps created_entity = null and has at
\* least one more message in errors; a translation whose write succeeded holds
\* the entity its own write returned; once the login succeeded the call returns
\* normally with one result per translation.
C5_PartialWriteFailure ==
    /\ \A i \in 1..Len(batch.translations) :
          LET t == batch.translations[i]
          IN  /\ t.write \in {"MWApiError", "Exception"} =>
                    /\ t.created_entity = <<>>
                    /\ Len(t.errors) > t.errors_before
              /\ t.write = "ok" =>
                    /\ t.created_entity = <<write(t.entity, i)>>
                    /\ t.created_entity[1].id # NULL
                    /\ Len(t.errors) = t.errors_before
    /\ (batch.login = "ok" /\ batch.phase \in {"migrated", "migrate_raised"}) =>
          /\ batch.phase = "migrated"
          /\ Len(batch.results) = Len(batch.translations)
          /\ \A i \in 1..Len(batch.translations) :
                Cardinality({ k \in 1..Len(batch.results) : batch.results[k] = i }) = 1

\* migrate_entities_to_target has returned for a batch of two translations: one
\* write raised, the other succeeded.
C5_Witness ==
    /\ batch.phase = "migrated"
    /\ \E i, j \in 1..Len(batch.translations) :
          /\ batch.translations[i].write \in {"MWApiError", "Exception"}
          /\ batch.translations[i].created_entity = <<>>
          /\ batch.translations[j].write = "ok"
          /\ batch.translations[j].created_entity # <<>>

\* C6 as claimed: when fetching or translating one entity of a batch raises,
\* translate_entities_by_id still returns, with a translation for every other
\* entity of the batch.
C6_FailureOnOneEntityIsConfined ==
    batch.failed_entity # NULL =>
        /\ batch.phase # "aborted"
        /\ \A k \in 1..Len(batch.item_ids) :
              batch.item_ids[k] # batch.failed_entity =>
                  \E i \in 1..Len(batch.translations) :
                      batch.translations[i].original_entity.id = batch.item_ids[k]

\* C7 as claimed: when merging a translation into its target raises,
\* merge_existing_entities returns normally, the message is in the translation's
\* errors, and the translation keeps its own rewritten entity.
C7_MergerExceptionsAreRecorded ==
    batch.merge_raised_for # {} =>
        /\ batch.phase # "aborted"
        /\ \A i \in 1..Len(batch.translations) :
              LET t == batch.translations[i]
              IN  t.merged = "raised" => (t.errors # <<>> /\ t.entity = t.own)

\* C8 as claimed: after translate_entities_by_id with merge_existing_entities =
\* true, a translation whose source id maps to a target (and whose merge did not
\* raise) holds the target entity under the mapped id, and its write returns
\* that id and creates nothing.
C8_MappedEntitiesAreMergedIntoTarget ==
    (batch.merge_existing /\ batch.phase \notin {"new", "aborted"}) =>
        \A i \in 1..Len(batch.translations) :
            LET t == batch.translations[i]
                target_id == t.entity_mapping[t.original_entity.id]
            IN  (target_id # NULL /\ t.merged # "raised") =>
                    /\ t.entity.id = target_id
                    /\ t.write = "ok" => t.created_entity[1].id = target_id

---------------------------------------------------------------------------
(* Properties of the translator (SpecTranslate)                            *)

Ignored(prof, snak) ==
    \/ prof.ignore_unknown_values /\ snak.snaktype = UNKNOWN_VALUE
    \/ prof.ignore_no_values /\ snak.snaktype = NO_VALUE

\* C1: for every source snak that _translate_snak handled and that the ignore
\* flags did not drop, a snak emitted for it carries the target property id the
\* cache holds for the source property; when the cache holds no mapping, nothing
\* is emitted and the source property id is in missing_properties.
C1_EmittedSnakHasMappedProperty ==
    \A i \in 1..Len(result.log) :
        LET e == result.log[i]
        IN  ~Ignored(profile, e.snak) =>
              /\ e.out # <<>> =>
                    /\ e.property_cached # NULL
                    /\ e.out[1].property_number = e.property_cached
                    /\ e.out[1].property_number \in TargetPropertyIds
              /\ e.property_cached = NULL =>
                    /\ e.out = <<>>
                    /\ e.snak.property_number \in Range(result.missing_properties)

\* One translation handled a snak with a mapped property, which was emitted,
\* and a snak with an unmapped property, which was dropped and recorded.
C1_Witness ==
    /\ ~result.raised
    /\ \E i \in 1..Len(result.log) :
          /\ result.log[i].out # <<>>
          /\ result.log[i].out[1].property_number = "P101"
    /\ \E i \in 1..Len(result.log) :
          /\ result.log[i].property_cached = NULL
          /\ result.log[i].snak.property_number \in Range(result.missing_properties)

ItemCase(e) ==
    /\ e.snak.datatype = "wikibase-item"
    /\ e.snak.snaktype = KNOWN_VALUE
    /\ e.property_cached # NULL
    /\ ~e.type_mismatch

\* C2: for every wikibase-item snak with KNOWN_VALUE on a mapped, type-compatible
\* property, either the referenced item is mapped and the emitted snak's value is
\* that target id, or nothing is emitted and the source item id is in
\* missing_items; no emitted item snak carries a source-side item id.
C2_ItemSnakMappedOrMissing ==
    \A i \in 1..Len(result.log) :
        LET e == result.log[i]
        IN  /\ ItemCase(e) =>
                \/ /\ e.value_cached # NULL
                   /\ e.out # <<>>
                   /\ e.out[1].datavalue.value = e.value_cached
                \/ /\ e.value_cached = NULL
                   /\ e.out = <<>>
                   /\ e.snak.datavalue.value \in Range(result.missing_items)
            /\ (e.out # <<>> /\ e.out[1].datatype = "wikibase-item")
                  => e.out[1].datavalue.value \in TargetItemIds

\* One translation emitted an item snak with a mapped value and dropped one
\* whose item has no mapping.
C2_Witness ==
    /\ ~result.raised
    /\ \E i \in 1..Len(result.log) :
          ItemCase(result.log[i]) /\ result.log[i].out # <<>>
    /\ \E i \in 1..Len(result.log) :
          /\ ItemCase(result.log[i]) /\ result.log[i].out = <<>>
          /\ result.log[i].snak.datavalue.value \in Range(result.missing_items)

---------------------------------------------------------------------------
(* Properties of the mapping cache (Spec)                                  *)

MappingRequests == {"property_mapping", "item_mapping"}

\* C3: mapping-cache monotonicity. Across every call, an id present in the
\* cache stays present, and an id cached with a target id (non-null) stays
\* cached with a non-null target.
C3_CacheMonotone ==
    [][\A id \in DOMAIN mappings :
          /\ id \in DOMAIN mappings'
          /\ (mappings[id] # NULL => mappings'[id] # NULL)]_vars

\* A query_mappings_for over an id that was already mapped has failed midway,
\* and the id is still mapped.
C3_Witness ==
    /\ last.op = "query_mappings_for"
    /\ last.raised
    /\ \E id \in last.ids : id \in DOMAIN mappings /\ mappings[id] # NULL

\* C4: a prepare_cache_for(ids) directly after a prepare_cache_for(ids) with the
\* same ids issues no SPARQL request at all (no mapping query, no datatype query).
C4_RepeatedPrepareIssuesNothing ==
    repeat.yes => last.issued = {}

\* The second of two equal prepare calls has run, and the first one did query.
C4_Witness ==
    /\ repeat.yes
    /\ repeat.first_issued \cap MappingRequests # {}
    /\ last.op = "prepare_cache_for"

\* C9 as claimed: when a prepare_cache_for fails before the mapping query for
\* some id has completed, that id is absent from the cache afterwards.
C9_UnqueriedIdsStayAbsent ==
    (last.op = "prepare_cache_for" /\ last.raised)
        => \A id \in last.unqueried : id \notin DOMAIN mappings

\* C10 as claimed: when a mapping query of a prepare_cache_for fails, the call
\* still returns normally and the ids are cached as unmapped.
C10_SparqlFailureReturnsNormally ==
    (last.op = "prepare_cache_for" /\ last.failed \cap MappingRequests # {})
        => /\ ~last.raised
           /\ \A id \in last.ids : id \in DOMAIN mappings

---------------------------------------------------------------------------
(* The allow-lists of the profile (SpecBatch)                              *)

\* the site a sitelink back reference of the profile writes on an item
BackReferenceSites(prof) ==
    IF prof.back_reference.defined /\ prof.back_reference.item.reference_type = "Sitelink"
    THEN {prof.back_reference.item.property_id}
    ELSE {}

\* the target entities the batch merged translations into
MergedTargets ==
    { TargetWiki(batch.translations[i].target_id) :
        i \in { j \in 1..Len(batch.translations) : batch.translations[j].merged = "yes" } }

\* C14 as claimed: the entity of every translation result of a batch, after the
\* back reference and the merge stage, has labels, descriptions and aliases in
\* allowed languages only and sitelinks on allowed sites only.
C14_AllowListsHold ==
    \A i \in 1..Len(batch.translations) :
        LET e == batch.translations[i].entity
        IN  /\ DOMAIN e.labels \subseteq profile.languages
            /\ DOMAIN e.descriptions \subseteq profile.languages
            /\ DOMAIN e.aliases \subseteq profile.languages
            /\ DOMAIN e.sitelinks \subseteq profile.sitelinks

\* C14, amended: the entity translate_entity built (before the merge stage) has
\* labels, descriptions and aliases in allowed languages only, and sitelinks on
\* allowed sites or on the site of the profile's sitelink back reference; after
\* the merge stage the entity of a result has, outside the allow-lists, only
\* what a merged target entity already had and that back reference.
C14_AllowListsUpToBackReferenceAndTarget ==
    \A i \in 1..Len(batch.translations) :
        LET own == batch.translations[i].own
            e == batch.translations[i].entity
        IN  /\ DOMAIN own.labels \subseteq profile.languages
            /\ DOMAIN own.descriptions \subseteq profile.languages
            /\ DOMAIN own.aliases \subseteq profile.languages
            /\ DOMAIN own.sitelinks \subseteq profile.sitelinks \cup BackReferenceSites(profile)
            /\ DOMAIN e.labels \subseteq
                  profile.languages \cup UNION { DOMAIN t.labels : t \in MergedTargets }
            /\ DOMAIN e.descriptions \subseteq
                  profile.languages \cup UNION { DOMAIN t.descriptions : t \in MergedTargets }
            /\ DOMAIN e.aliases \subseteq
                  profile.languages \cup UNION { DOMAIN t.aliases : t \in MergedTargets }
            /\ DOMAIN e.sitelinks \subseteq
                  profile.sitelinks \cup BackReferenceSites(profile)
                      \cup UNION { DOMAIN t.sitelinks : t \in MergedTargets }

\* A source item with a German label and a dewiki sitelink, neither allowed, was
\* translated with a sitelink back reference and merged into a target entity
\* that has a German label.
C14_Witness ==
    \E i \in 1..Len(batch.translations) :
        LET t == batch.translations[i]
        IN  /\ t.merged = "yes"
            /\ "de" \in DOMAIN t.original_entity.labels /\ "de" \notin profile.languages
            /\ "dewiki" \in DOMAIN t.original_entity.sitelinks
            /\ "dewiki" \notin profile.sitelinks
            /\ "enwiki" \in DOMAIN t.own.sitelinks
            /\ BackReferenceSites(profile) # {}
            /\ BackReferenceSites(profile) \subseteq DOMAIN t.own.sitelinks
            /\ "de" \in DOMAIN t.entity.labels

---------------------------------------------------------------------------
(* Properties of the merger (SpecMerge)                                    *)

\* two claims state the same value of the same property
SameMainsnak(a, b) ==
    /\ a.mainsnak.property_number = b.mainsnak.property_number
    /\ _get_datavalue_hash(a.mainsnak.datavalue) = _get_datavalue_hash(b.mainsnak.datavalue)

\* the target claim t is one the source claim c may be merged into
Mergeable(c, t) ==
    SameMainsnak(c, t) /\ (Len(t.qualifiers) = 0 \/ Len(c.qualifiers) = 0)

\* the number of claims on a property
CountOn(claims, pid) ==
    Cardinality({ i \in 1..Len(claims) : claims[i].mainsnak.property_number = pid })

\* the claim t holds every qualifier and every reference group of the claim c
Absorbed(c, t) ==
    /\ \A i \in 1..Len(c.qualifiers) : \E j \in 1..Len(t.qualifiers) :
          /\ t.qualifiers[j].property_number = c.qualifiers[i].property_number
          /\ _get_datavalue_hash(t.qualifiers[j].datavalue)
                = _get_datavalue_hash(c.qualifiers[i].datavalue)
    /\ \A i \in 1..Len(c.references) : \E j \in 1..Len(t.references) :
          _get_reference_hash(t.references[j]) = _get_reference_hash(c.references[i])

C12_QualifiedStatementsStayDistinct ==
    merging.phase = "merged" =>
        \A k \in 1..Len(merging.log) :
            LET e == merging.log[k]
                c == e.source_claim
            IN  \A i \in 1..Len(e.before) :
                    (/\ SameMainsnak(c, e.before[i])
                     /\ Len(c.qualifiers) > 0
                     /\ Len(e.before[i].qualifiers) > 0)
                    => /\ Len(e.after) = Len(e.before) + 1
                       /\ e.after[i] = e.before[i]
                       /\ e.after[Len(e.after)].mainsnak = c.mainsnak
                       /\ e.after[Len(e.after)].qualifiers = c.qualifiers

\* the claims of an entity have pairwise distinct main-snak hashes per property
UniqueMainsnaks(entity) ==
    \A i, j \in 1..Len(entity.claims) :
        i # j => ~SameMainsnak(entity.claims[i], entity.claims[j])

\* C13 as claimed: merging a copy of an entity with unique main-snak hashes into
\* the entity returns it with the same number of claims per property, of
\* qualifiers per claim and of reference groups per claim.
C13_MergeWithItselfIsIdempotent ==
    (/\ merging.phase = "merged"
     /\ merging.source.claims = merging.target.claims
     /\ UniqueMainsnaks(merging.target))
    => /\ ~merging.raised
       /\ Len(merging.entity.claims) = Len(merging.target.claims)
       /\ \A i \in 1..Len(merging.target.claims) :
             /\ Len(merging.entity.claims[i].qualifiers)
                   = Len(merging.target.claims[i].qualifiers)
             /\ Len(merging.entity.claims[i].references)
                   = Len(merging.target.claims[i].references)

\* C27 as claimed: a source claim is merged into a target claim only if the two
\* main snaks have the same snaktype; a NO_VALUE claim is never merged into an
\* UNKNOWN_VALUE claim or a KNOWN_VALUE claim, nor one of these into it.
C27_MergedOnlyWithSameSnaktype ==
    merging.phase = "merged" =>
        \A k \in 1..Len(merging.log) :
            LET e == merging.log[k]
            IN  e.branch = "_merge_claim"
                => e.before[e.at].mainsnak.snaktype = e.source_claim.mainsnak.snaktype

\* the (property, datavalue) pairs of a reference group, with their numbers
ReferenceContent(reference) ==
    LET pairs == { <<reference[i].property_number, reference[i].datavalue>>
                     : i \in 1..Len(reference) }
    IN  [p \in pairs |->
            Cardinality({ i \in 1..Len(reference) :
                            <<reference[i].property_number, reference[i].datavalue>> = p })]

\* C28 as claimed: when a source claim is merged into a target claim, each of
\* its reference groups whose (property, datavalue) snaks are those of no
\* reference group of the target claim is a reference group of the claim
\* afterwards.
C28_ReferenceEqualityCountsTheProperty ==
    merging.phase = "merged" =>
        \A k \in 1..Len(merging.log) :
            LET e == merging.log[k]
                c == e.source_claim
            IN  e.branch = "_merge_claim" =>
                    \A i \in 1..Len(c.references) :
                        (\A j \in 1..Len(e.before[e.at].references) :
                            ReferenceContent(e.before[e.at].references[j])
                                # ReferenceContent(c.references[i]))
                        => \E j \in 1..Len(e.after[e.at].references) :
                              e.after[e.at].references[j] = c.references[i]

---------------------------------------------------------------------------
(* Properties of the resolution of several targets (SpecResolve)           *)

\* the raw targets of a source id
RawTargets(source) == { r[2] : r \in { x \in raw_mappings : x[1] = source } }

\* the raw targets whose cached datatype is the cached datatype of the source
MatchingTargets(source) ==
    { t \in RawTargets(source) :
        Get(target_property_types, t) = Get(source_property_types, source) }

\* C18: conflict resolution in update_cache. After a call in which update_cache
\* ran, every source id with a raw pair is cached with one of its raw targets:
\* the only one if there is one; for a property with several targets of which
\* some have the source's cached datatype, one of these; otherwise the first
\* target the iteration of the raw set meets.
C18_UpdateCacheResolvesConflicts ==
    session.updated =>
        \A source \in { r[1] : r \in raw_mappings } :
            /\ source \in DOMAIN mappings
            /\ mappings[source] \in RawTargets(source)
            /\ (Cardinality(RawTargets(source)) > 1 /\ Prefix(source) = "P"
                    /\ MatchingTargets(source) # {})
                  => mappings[source] \in MatchingTargets(source)
            /\ (Cardinality(RawTargets(source)) > 1
                    /\ (Prefix(source) # "P" \/ MatchingTargets(source) = {}))
                  => mappings[source] = First(RawTargets(source), session.order)

\* update_cache has run over P11, whose first target has another datatype and
\* whose second target has its datatype, and over P12, none of whose targets
\* has its datatype.
C18_Witness ==
    /\ session.updated
    /\ RawTargets("P11") = {"P100", "P104"}
    /\ First(RawTargets("P11"), session.order) = "P100"
    /\ MatchingTargets("P11") = {"P104"}
    /\ mappings["P11"] = "P104"
    /\ RawTargets("P12") = {"P100", "P102"}
    /\ MatchingTargets("P12") = {}
    /\ mappings["P12"] = "P100"

\* C20 as claimed: a get_mapping_for(id) returns the target id the first
\* get_mapping_for(id) of the session returned, whatever was primed in between.
C20_ResolutionIsStable ==
    (session.asked # NULL /\ session.asked \in DOMAIN session.returned)
        => session.ret = session.returned[session.asked]

---------------------------------------------------------------------------
(* Properties of the casts and the quantities (SpecCast)                   *)

\* the log entry is a KNOWN_VALUE snak on a mapped property whose cached
\* datatype differs from the cached datatype of the target property
Mismatch(e) ==
    /\ ~e.raised
    /\ e.snak.snaktype = KNOWN_VALUE
    /\ e.property_cached # NULL
    /\ Get(source_property_types, e.snak.property_number)
          # Get(target_property_types, e.property_cached)

LogEntries == { result.log[k] : k \in 1..Len(result.log) }

\* C15 as claimed: handling a snak with a datatype mismatch appends at least
\* one note to the errors of the translation result, whether the cast
\* succeeds, is refused or is disabled.
C15_EveryCastIsRecorded ==
    \A e \in LogEntries : Mismatch(e) => e.errors_added >= 1

\* C16: the result of the type-mismatch caster. With casts disabled nothing is
\* emitted; with casts enabled a string on a quantity property gives the
\* quantity of its integer parse ("1" gives "+1") or nothing, a string on a
\* monolingual property gives the text in the fallback language, a string on
\* an external-id property gives the same text, a monolingual text on a
\* string property gives its text, and every other pair gives nothing.
C16_CasterResult ==
    \A e \in LogEntries :
        Mismatch(e) =>
            LET source_type == Get(source_property_types, e.snak.property_number)
                target_type == Get(target_property_types, e.property_cached)
                value == e.snak.datavalue.value
                Emitted(datatype, datavalue) ==
                    e.out = << Snak(e.property_cached, datatype, KNOWN_VALUE, datavalue) >>
            IN  IF ~profile.type_casts_enabled THEN e.out = <<>>
                ELSE IF source_type = "string" /\ target_type = "quantity"
                THEN IF ParseInt(value) = <<>> THEN e.out = <<>>
                     ELSE /\ Len(e.out) = 1
                          /\ e.out[1].property_number = e.property_cached
                          /\ e.out[1].datatype = "quantity"
                          /\ e.out[1].datavalue.value = FormatAmount(ParseInt(value)[1])
                          /\ value = "1" => e.out[1].datavalue.value = "+1"
                ELSE IF source_type = "string" /\ target_type = "monolingualtext"
                THEN Emitted("monolingualtext",
                             MonolingualValue(value, profile.fallback_language))
                ELSE IF source_type = "string" /\ target_type = "external-id"
                THEN Emitted("external-id", StringValue(value))
                ELSE IF source_type = "monolingualtext" /\ target_type = "string"
                THEN Emitted("string", StringValue(value))
                ELSE e.out = <<>>

\* With casts enabled, the string "1" became the quantity "+1" and the string
\* "abc" on the same quantity property was dropped.
C16_Witness ==
    /\ profile.type_casts_enabled
    /\ \E e \in LogEntries :
          /\ e.snak = StringCastable /\ Mismatch(e)
          /\ Len(e.out) = 1 /\ e.out[1].datavalue.value = "+1"
    /\ \E e \in LogEntries :
          e.snak = StringUncastable /\ Mismatch(e) /\ e.out = <<>>

\* C17: unit remapping. A KNOWN_VALUE quantity on a mapped property of the same
\* datatype keeps its amount; a unit that is an entity with a mapping becomes
\* the target's item prefix followed by the mapped id, and the unit "1" stays
\* "1" with no lookup but the one of the property.
C17_UnitRemapping ==
    \A e \in LogEntries :
        (/\ e.snak.datatype = "quantity" /\ e.snak.snaktype = KNOWN_VALUE
         /\ ~e.raised /\ e.property_cached # NULL /\ ~Mismatch(e))
        => LET unit == e.snak.datavalue.unit
               mapped_unit_id == Get(mappings, LastSegment(unit))
           IN  /\ Len(e.out) = 1
               /\ e.out[1].property_number = e.property_cached
               /\ e.out[1].datavalue.value = e.snak.datavalue.value
               /\ unit = "1" =>
                     /\ e.out[1].datavalue.unit = "1"
                     /\ e.lookups = {e.snak.property_number}
               /\ (unit # "1" /\ mapped_unit_id # NULL) =>
                     e.out[1].datavalue.unit = TargetUnit(mapped_unit_id)

\* A quantity in a unit entity with a mapping and a unitless quantity were
\* both emitted.
C17_Witness ==
    /\ \E e \in LogEntries :
          /\ e.snak = QuantityMappedUnit /\ Len(e.out) = 1
          /\ e.out[1].datavalue.unit \in {"tgt/Q101", "tgt/Q102"}
          /\ "Q1" \in e.lookups
    /\ \E e \in LogEntries :
          e.snak = QuantityUnitless /\ Len(e.out) = 1 /\ e.out[1].datavalue.unit = "1"

\* C19: the id harvest is complete. Every id handed to get_mapping_for while an
\* entity is translated, and the entity's own id, is in get_all_entity_ids of
\* the entity, and after the prime with the harvest the translation issues no
\* request.
C19_HarvestIsComplete ==
    result # NoResult =>
        /\ result.original_entity.id \in get_all_entity_ids(result.original_entity)
        /\ result.lookups \subseteq get_all_entity_ids(result.original_entity)
        /\ \A e \in LogEntries :
              e.lookups \subseteq get_all_entity_ids(result.original_entity)
        /\ result.requeried = {}

\* An entity was translated whose snaks made the translator look up a
\* property of a qualifier, the item of a qualifier and the unit of a quantity.
C19_Witness ==
    /\ ~result.raised
    /\ {"P1", "P8", "Q1"} \subseteq result.lookups
    /\ \E e \in LogEntries : e.snak = ItemKnown /\ e.lookups = {"P1", "Q1"}
    /\ \E e \in LogEntries : e.snak = QuantityMappedUnit /\ e.lookups = {"P8", "Q1"}
    /\ result.requeried = {}

---------------------------------------------------------------------------
(* Properties of the writes to the target (SpecMigrate)                    *)

Futures == { migration.futures[i] : i \in 1..Len(migration.futures) }

\* C21: every translation of the batch is submitted for writing exactly once,
\* and the entity_done_callback is invoked exactly once per translation, only
\* after the write attempt of the translation is on record (created_entity or
\* an error message), in whatever order the writes complete.
C21_SubmittedOnceCalledBackOnce ==
    /\ \A f \in Futures :
          /\ f.submits <= 1
          /\ Len(f.calls) <= 1
          /\ \A k \in 1..Len(f.calls) : f.calls[k].settled
    /\ migration.phase = "returned" =>
          /\ Len(migration.futures) = Len(migration.translations)
          /\ \A f \in Futures : f.submits = 1
          /\ migration.callback => \A f \in Futures : Len(f.calls) = 1
          /\ Len(migration.results) = Len(migration.translations)
          /\ \A i \in 1..Len(migration.translations) :
                \E k \in 1..Len(migration.results) : migration.results[k] = i

\* Two writes completed against the order of submission, one of them failed,
\* and the callback ran once in the main thread, on a future that was done
\* before it was registered, and once in a worker.
C21_Witness ==
    /\ migration.phase = "returned" /\ migration.callback
    /\ migration.results = <<2, 1>>
    /\ \E i \in 1..2 : migration.translations[i].write = "MWApiError"
    /\ \E i, j \in 1..2 :
          /\ migration.futures[i].calls = << [thread |-> "main", settled |-> TRUE] >>
          /\ migration.futures[j].calls = << [thread |-> "worker", settled |-> TRUE] >>

\* the target configures OAuth1 and the user token is missing
OAuthIncomplete == migration.auth.consumer_key /\ ~migration.auth.user_token

\* migrate_entities_to_target has raised UserLoginRequiredException and no
\* write was submitted
LoginRequiredBeforeAnyWrite ==
    /\ migration.phase = "raised"
    /\ migration.login = "UserLoginRequiredException"
    /\ \A f \in Futures : f.submits = 0 /\ f.state = "none"
    /\ \A i \in 1..Len(migration.translations) : migration.translations[i].write = "none"

\* C22 as claimed: if the target configures OAuth1 (consumer_key set) and the
\* user access token or secret is missing, migrate_entities_to_target raises
\* UserLoginRequiredException and no write is dispatched.
C22_LoginRequiredBeforeWrites ==
    (migration.phase # "new" /\ OAuthIncomplete) => LoginRequiredBeforeAnyWrite

\* C22, amended: the same for a target that sets no bot_password; with a
\* bot_password the bot login is used and the consumer_key is not looked at.
C22_LoginRequiredUnlessBotPassword ==
    /\ (migration.phase # "new" /\ OAuthIncomplete /\ ~migration.auth.bot_password)
            => LoginRequiredBeforeAnyWrite
    /\ (migration.phase # "new" /\ migration.auth.bot_password)
            => migration.login \in {"Login", "LoginError"}

\* A batch of two translations was handed to a target with consumer_key and
\* without user token, and the call raised.
C22_Witness ==
    /\ OAuthIncomplete /\ ~migration.auth.bot_password
    /\ Len(migration.translations) = 2
    /\ LoginRequiredBeforeAnyWrite

---------------------------------------------------------------------------
(* Properties of the command line (SpecCli)                                *)

\* no write has been dispatched to the target
NoWriteDispatched ==
    /\ migration.phase = "new"
    /\ migration.futures = <<>>
    /\ \A i \in 1..Len(migration.translations) :
          migration.translations[i].write = "none"
              /\ migration.translations[i].created_entity = <<>>

\* C24: the confirmation gate of migrate. Without --force no write is
\* dispatched before the user has confirmed the prompt; when the user
\* declines, no entity is written and the command aborts with exit code 1;
\* with --force the prompt is skipped and migrate_entities_to_target runs.
C24_ConfirmationGate ==
    /\ (cli.phase # "new" /\ ~cli.force /\ cli.answer # "y") => NoWriteDispatched
    /\ (cli.prompted /\ cli.answer # "y") =>
            /\ NoWriteDispatched
            /\ cli.phase = "aborted" /\ cli.exit_code = 1
    /\ cli.force => ~cli.prompted /\ cli.answer = NULL
    /\ (cli.force /\ cli.phase \in {"migrating", "exited"}) => migration.phase # "new"
    /\ (cli.phase = "exited" /\ cli.exit_code = 0) =>
            /\ migration.phase = "returned"
            /\ \A i \in 1..Len(migration.translations) :
                  migration.translations[i].write # "none"

\* The user declined the migration of two translated entities.
C24_Witness ==
    /\ ~cli.force /\ cli.prompted /\ cli.answer = "n"
    /\ cli.phase = "aborted" /\ cli.exit_code = 1
    /\ Len(migration.translations) = 2

\* A run with --force wrote two entities without a prompt.
C24_ForcedRunWrites ==
    /\ cli.phase = "exited" /\ cli.exit_code = 0
    /\ cli.force /\ ~cli.prompted
    /\ Len(migration.translations) = 2
    /\ \A i \in 1..2 : migration.translations[i].write = "ok"

---------------------------------------------------------------------------
(* Properties of the cache under a concurrent reader (SpecPrime)           *)

\* C23 as claimed: a get_mapping_for(id) that runs while a prime covering id
\* is in progress observes no intermediate state of the cache; it does not
\* return None for an id whose mapping query of that prime is still to
\* complete and will bind a target.
C23_PrimeIsAtomicForReaders ==
    (prime.read # NULL /\ prime.in_flight /\ prime.will_map) => prime.ret # NULL

---------------------------------------------------------------------------
(* Properties of the copied payload and of the dropped snaks (SpecCast)    *)

\* the log entry is a KNOWN_VALUE quantity translated by the quantity branch
QuantityCase(e) ==
    /\ e.snak.datatype = "quantity" /\ e.snak.snaktype = KNOWN_VALUE
    /\ ~e.raised /\ e.property_cached # NULL /\ ~Mismatch(e)

\* C25 as claimed: the quantity payload is copied. A KNOWN_VALUE quantity on a
\* mapped property of the same datatype is emitted with the same amount and,
\* when the source value has an upperBound and a lowerBound, with the same
\* upper and lower bound.
C25_QuantityPayloadIsCopied ==
    \A e \in LogEntries :
        QuantityCase(e) =>
            /\ Len(e.out) = 1
            /\ e.out[1].datavalue.value = e.snak.datavalue.value
            /\ {"upperBound", "lowerBound"} \subseteq DOMAIN e.snak.datavalue =>
                  /\ {"upperBound", "lowerBound"} \subseteq DOMAIN e.out[1].datavalue
                  /\ e.out[1].datavalue.upperBound = e.snak.datavalue.upperBound
                  /\ e.out[1].datavalue.lowerBound = e.snak.datavalue.lowerBound

\* the members of a list
Members(list) == { list[k] : k \in 1..Len(list) }

\* C26 as claimed: no snak is dropped silently. A translated snak for which
\* nothing was emitted has its property in missing_properties or its item in
\* missing_items, or a note was appended to errors for it, or it was excluded
\* by ignore_unknown_values / ignore_no_values; this for every datatype.
C26_NoSnakDroppedSilently ==
    \A e \in LogEntries :
        (~e.raised /\ e.out = <<>>) =>
            \/ e.snak.property_number \in Members(result.missing_properties)
            \/ /\ _is_item_and_known_value(e.snak)
               /\ e.snak.datavalue.value \in Members(result.missing_items)
            \/ e.errors_added >= 1
            \/ Ignored(profile, e.snak)

\* C29 as claimed: an unmapped unit is not lost silently. A KNOWN_VALUE
\* quantity whose unit is an entity without mapping is not emitted as a
\* unitless quantity, and the id of the unit is recorded in missing_items.
C29_UnmappedUnitIsNotLost ==
    \A e \in LogEntries :
        (QuantityCase(e) /\ get_unit_id(e.snak) # NULL
            /\ Get(mappings, get_unit_id(e.snak)) = NULL) =>
            /\ \A k \in 1..Len(e.out) : e.out[k].datavalue.unit # "1"
            /\ get_unit_id(e.snak) \in Members(result.missing_items)

\* C30 as claimed: missing datatype information is no type mismatch. When the
\* cache holds no datatype for the source property or for the target
\* property of a KNOWN_VALUE snak, no mismatch is reported for the snak and
\* the snak is not handed to the caster.
C30_MissingDatatypeIsNoMismatch ==
    \A e \in LogEntries :
        (/\ ~e.raised /\ e.snak.snaktype = KNOWN_VALUE /\ e.property_cached # NULL
         /\ \/ Get(source_property_types, e.snak.property_number) = NULL
            \/ Get(target_property_types, e.property_cached) = NULL)
        => ~e.type_mismatch /\ ~Mismatch(e)

====
